---- MODULE Spec2Model ----
(***************************************************************************)
(* A model of the data-analysis scripts of positron_webinar: the validator *)
(* (data_utils.py), the metrics engine (statistics_utils.py), the          *)
(* reporter (visualization_utils.py) and the per-instance pipelines        *)
(* (customer_analysis.py, sales_analysis.py, product_analysis.py).         *)
(*                                                                         *)
(* A DataFrame is a record [columns, index, rows]: the column names in     *)
(* order, the row labels in order, and the rows (functions from column     *)
(* name to value).  A float is a record [k, n, d]: k = "num" for the       *)
(* rational n/d in lowest terms (d > 0), or one of the IEEE specials       *)
(* "nan", "inf", "ninf".  Rounding of binary floats is not modelled:       *)
(* arithmetic on finite values is exact.                                   *)
(***************************************************************************)
EXTENDS Integers, Sequences, FiniteSets, TLC

VARIABLES
    fs,               \* the file system: path -> contents, or Missing
    pc,               \* position of the current invocation
    fn,               \* the function being executed
    inst,             \* dataset instance (segment, region or category)
    err,              \* the exception that ended the invocation, or "none"
    stdout,           \* the report blocks printed so far
    email,            \* validate_email's argument
    email_ret,        \* the result of the email check
    customers,        \* customer pipeline: the frame being validated
    idx,              \* customer pipeline: rows consumed by the loop
    valid_customers,  \* customer pipeline: the list of accepted rows
    valid_df,         \* customer pipeline: pd.DataFrame(valid_customers)
    age_stats,        \* customer pipeline: the age summary
    data,             \* sales pipeline: the frame loaded and cleaned
    stats,            \* sales pipeline: the sales summary
    caller_df,        \* the frame given to calculate_product_metrics
    products,         \* product pipeline: the frame with derived columns
    products_again,   \* calculate_product_metrics applied a second time
    metrics,          \* product pipeline: the category summary
    top_products,     \* product pipeline: the ranking
    module,           \* the script whose functions are in use, or "none"
    caller,           \* who calls them: its __main__ block or a client
    calls,            \* the invocations finished so far, with their outcomes
    exit,             \* how the script ended, or "running"
    items,            \* slow_code_examples: the list given to the function
    pos,              \* slow_code_examples: items consumed by the loop
    result,           \* count_items_*: the dictionary being built
    keys_list,        \* count_items_slow: the list of keys seen
    global_counter,   \* slow_code_examples: the module's global
    local_counter,    \* process_with_local_fast: its local
    bench             \* benchmark_example: calls made so far

vars == <<fs, pc, fn, inst, err, stdout, email, email_ret, customers, idx,
          valid_customers, valid_df, age_stats, data, stats, caller_df,
          products, products_again, metrics, top_products, module, caller,
          calls, exit, items, pos, result, keys_list, global_counter,
          local_counter, bench>>

-----------------------------------------------------------------------------
(* Bounds of the model.                                                    *)

MaxEmailLen == 6
MaxCustomers == 3
MaxSales == 3
MaxProducts == 3
MaxRanked == 6

-----------------------------------------------------------------------------
(* Sequences.                                                              *)

SeqsUpTo(S, n) == UNION {[1..k -> S] : k \in 0..n}

Range(s) == {s[i] : i \in 1..Len(s)}

Take(s, n) == SubSeq(s, 1, IF n < Len(s) THEN n ELSE Len(s))

RECURSIVE SumSeq(_)
SumSeq(s) == IF s = <<>> THEN 0 ELSE Head(s) + SumSeq(Tail(s))

-----------------------------------------------------------------------------
(* Floats.                                                                 *)

Abs(x) == IF x < 0 THEN -x ELSE x

RECURSIVE GCD(_, _)
GCD(a, b) == IF b = 0 THEN a ELSE GCD(b, a % b)

NaN == [k |-> "nan", n |-> 0, d |-> 1]
PosInf == [k |-> "inf", n |-> 0, d |-> 1]
NegInf == [k |-> "ninf", n |-> 0, d |-> 1]

\* The rational n/d (d # 0) in lowest terms with a positive denominator.
Rat(n, d) ==
    LET g == GCD(Abs(n), Abs(d))
        s == IF d < 0 THEN -1 ELSE 1
    IN  [k |-> "num", n |-> (s * n) \div g, d |-> (s * d) \div g]

Float(i) == Rat(i, 1)

IsNaN(x) == x.k = "nan"
IsFinite(x) == x.k = "num"

\* a / b on numbers held as floats: division by zero raises nothing and
\* gives nan (0/0) or a signed infinity.
TrueDiv(a, b) ==
    IF b = 0
    THEN IF a = 0 THEN NaN ELSE IF a > 0 THEN PosInf ELSE NegInf
    ELSE Rat(a, b)

\* x * c for a float x and an integer c > 0.
FMulInt(x, c) == IF IsFinite(x) THEN Rat(x.n * c, x.d) ELSE x

\* x / c for a float x and an integer c > 0.
FDivInt(x, c) == IF IsFinite(x) THEN Rat(x.n, x.d * c) ELSE x

FAdd(x, y) ==
    CASE IsNaN(x) \/ IsNaN(y) -> NaN
      [] IsFinite(x) /\ IsFinite(y) -> Rat(x.n * y.d + y.n * x.d, x.d * y.d)
      [] IsFinite(x) -> y
      [] IsFinite(y) -> x
      [] OTHER -> IF x = y THEN x ELSE NaN

FLess(x, y) ==
    CASE IsNaN(x) \/ IsNaN(y) -> FALSE
      [] x = y -> FALSE
      [] x.k = "ninf" \/ y.k = "inf" -> TRUE
      [] x.k = "inf" \/ y.k = "ninf" -> FALSE
      [] OTHER -> x.n * y.d < y.n * x.d

RECURSIVE FSum(_)
FSum(s) == IF s = <<>> THEN Float(0) ELSE FAdd(Head(s), FSum(Tail(s)))

\* The values of a column that are not missing (skipna=True, the default of
\* every reduction used here).
DropNaN(s) == SelectSeq(s, LAMBDA x : ~IsNaN(x))

\* Series.sum(): 0 over no values.
SeriesSum(s) == FSum(DropNaN(s))

\* Series.mean(): nan over no values.
SeriesMean(s) ==
    LET v == DropNaN(s)
    IN  IF Len(v) = 0 THEN NaN ELSE FDivInt(FSum(v), Len(v))

\* Series.min() and Series.max(): nan over no values.
SeriesMin(s) ==
    LET v == DropNaN(s)
    IN  IF Len(v) = 0 THEN NaN
        ELSE CHOOSE x \in Range(v) : \A y \in Range(v) : ~FLess(y, x)

SeriesMax(s) ==
    LET v == DropNaN(s)
    IN  IF Len(v) = 0 THEN NaN
        ELSE CHOOSE x \in Range(v) : \A y \in Range(v) : ~FLess(x, y)

\* format(x, '.<p>f') with scale = 10^p: the nearest multiple of 1/scale,
\* ties to even, as [k, n]: n counts units of 1/scale; "nan", "inf" and
\* "-inf" print as such.
FormatFixed(x, scale) ==
    IF ~IsFinite(x) THEN [k |-> x.k, n |-> 0]
    ELSE LET num == x.n * scale
             q == num \div x.d
             r == num % x.d
         IN  [k |-> "num",
              n |-> IF 2 * r > x.d \/ (2 * r = x.d /\ q % 2 = 1)
                    THEN q + 1 ELSE q]

-----------------------------------------------------------------------------
(* DataFrames.                                                             *)

\* What the file system holds at a path where there is no file.
Missing == [columns |-> <<"<missing>">>, rows |-> <<>>]

\* pd.DataFrame([]): no rows and no columns.
EmptyDataFrame == [columns |-> <<>>, index |-> <<>>, rows |-> <<>>]

HasColumn(df, c) == c \in Range(df.columns)

\* df[c] as the sequence of its values.
Column(df, c) == [i \in 1..Len(df.rows) |-> df.rows[i][c]]

\* pd.read_csv of a file holding a header and rows: a RangeIndex from 0.
ReadCsv(file) ==
    [columns |-> file.columns,
     index |-> [i \in 1..Len(file.rows) |-> i - 1],
     rows |-> file.rows]

\* df.to_csv(path, index=False): the header and the rows, without the labels.
ToCsv(df) == [columns |-> df.columns, rows |-> df.rows]

\* One item of df.iterrows(): the row with its label as the Series' name.
IterRow(df, i) == [name |-> df.index[i], values |-> df.rows[i]]

\* pd.DataFrame(list of Series): the Series' names are the labels and their
\* fields the columns; an empty list gives a frame with no columns at all.
DataFrameOfSeries(list, columns) ==
    IF list = <<>> THEN EmptyDataFrame
    ELSE [columns |-> columns,
          index |-> [i \in 1..Len(list) |-> list[i].name],
          rows |-> [i \in 1..Len(list) |-> list[i].values]]

AsFloats(s) == [i \in 1..Len(s) |-> Float(s[i])]

NoStats == [average |-> NaN, min |-> NaN, max |-> NaN]

-----------------------------------------------------------------------------
(* Paths.                                                                  *)

Segments == {"new", "returning", "vip"}

CustomerSource(seg) ==
    CASE seg = "new" -> "data/new_customers.csv"
      [] seg = "returning" -> "data/returning_customers.csv"
      [] seg = "vip" -> "data/vip_customers.csv"

CustomerSink(seg) ==
    CASE seg = "new" -> "outputs/new_customers_clean.csv"
      [] seg = "returning" -> "outputs/returning_customers_clean.csv"
      [] seg = "vip" -> "outputs/vip_customers_clean.csv"

CustomerTitle(seg) ==
    CASE seg = "new" -> "New Customers Statistics:"
      [] seg = "returning" -> "Returning Customers Statistics:"
      [] seg = "vip" -> "VIP Customers Statistics:"

Regions == {"north", "south", "east", "west"}

SalesSource(region) ==
    CASE region = "north" -> "data/north_sales.csv"
      [] region = "south" -> "data/south_sales.csv"
      [] region = "east" -> "data/east_sales.csv"
      [] region = "west" -> "data/west_sales.csv"

SalesPlot(region) ==
    CASE region = "north" -> "outputs/north_sales_plot.png"
      [] region = "south" -> "outputs/south_sales_plot.png"
      [] region = "east" -> "outputs/east_sales_plot.png"
      [] region = "west" -> "outputs/west_sales_plot.png"

SalesTitle(region) ==
    CASE region = "north" -> "North Region Analysis:"
      [] region = "south" -> "South Region Analysis:"
      [] region = "east" -> "East Region Analysis:"
      [] region = "west" -> "West Region Analysis:"

SalesPlotTitle(region) ==
    CASE region = "north" -> "North Region Sales Over Time"
      [] region = "south" -> "South Region Sales Over Time"
      [] region = "east" -> "East Region Sales Over Time"
      [] region = "west" -> "West Region Sales Over Time"

Categories == {"electronics", "clothing", "home_goods"}

ProductSource(cat) ==
    CASE cat = "electronics" -> "data/electronics_products.csv"
      [] cat = "clothing" -> "data/clothing_products.csv"
      [] cat = "home_goods" -> "data/home_goods_products.csv"

ProductTitle(cat) ==
    CASE cat = "electronics" -> "Electronics Category:"
      [] cat = "clothing" -> "Clothing Category:"
      [] cat = "home_goods" -> "Home Goods Category:"

Paths ==
    {CustomerSource(s) : s \in Segments} \cup {CustomerSink(s) : s \in Segments}
        \cup {SalesSource(r) : r \in Regions} \cup {SalesPlot(r) : r \in Regions}
        \cup {ProductSource(c) : c \in Categories}

NoFiles == [p \in Paths |-> Missing]

-----------------------------------------------------------------------------
(* The validator: data_utils.py, and the check written out in              *)
(* customer_analysis.py.                                                   *)

Chars == {"@", ".", "a", "b"}

Emails == SeqsUpTo(Chars, MaxEmailLen)

\* c in s, for a one-character c: a scan of s from its start.
RECURSIVE In(_, _)
In(c, s) ==
    IF s = <<>> THEN FALSE
    ELSE IF Head(s) = c THEN TRUE ELSE In(c, Tail(s))

validate_email_short(e) == In("@", e) /\ In(".", e) /\ Len(e) >= 5

validate_email(e) == In("@", e) /\ In(".", e) /\ Len(e) > 5

\* if '@' in email and '.' in email: if len(email) > 5: ...
InlineEmailCheck(e) ==
    IF In("@", e) /\ In(".", e)
    THEN IF Len(e) > 5 THEN TRUE ELSE FALSE
    ELSE FALSE

-----------------------------------------------------------------------------
(* Defaults of the variables a specification does not use.                 *)

IdleControl ==
    /\ pc = "idle"
    /\ fn = "none"
    /\ inst = "none"
    /\ err = "none"
    /\ stdout = <<>>

NoEmail ==
    /\ email = <<>>
    /\ email_ret = FALSE

NoCustomers ==
    /\ customers = EmptyDataFrame
    /\ idx = 0
    /\ valid_customers = <<>>
    /\ valid_df = EmptyDataFrame
    /\ age_stats = NoStats

NoSalesStats == [total |-> NaN, average |-> NaN, max |-> NaN, min |-> NaN]

NoSales ==
    /\ data = EmptyDataFrame
    /\ stats = NoSalesStats

NoMetrics == [total_revenue |-> NaN, total_profit |-> NaN, avg_margin |-> NaN]

NoProducts ==
    /\ caller_df = EmptyDataFrame
    /\ products = EmptyDataFrame
    /\ products_again = EmptyDataFrame
    /\ metrics = NoMetrics
    /\ top_products = EmptyDataFrame

\* No script is running and no client has called anything.
NoRun ==
    /\ module = "none"
    /\ caller = "none"
    /\ calls = <<>>
    /\ exit = "running"

\* The state of slow_code_examples after import: global_counter = 0.
NoExamples ==
    /\ items = <<>>
    /\ pos = 0
    /\ result = <<>>
    /\ keys_list = <<>>
    /\ global_counter = 0
    /\ local_counter = 0
    /\ bench = 0

emailVars == <<email, email_ret>>
runVars == <<module, caller, calls, exit>>
exampleVars == <<items, pos, result, keys_list, global_counter, local_counter, bench>>
customerVars == <<customers, idx, valid_customers, valid_df, age_stats>>
salesVars == <<data, stats>>
productVars == <<caller_df, products, products_again, metrics, top_products>>

-----------------------------------------------------------------------------
(* validate_email and the inline check, applied to one string.             *)

ValidateEmail ==
    /\ pc = "idle"
    /\ fn' = "validate_email"
    /\ email_ret' = validate_email(email)
    /\ pc' = "done"
    /\ UNCHANGED <<fs, inst, err, stdout, email>>

\* The test the loops of process_*_customers apply to row['email'].
CheckEmailInline ==
    /\ pc = "idle"
    /\ fn' = "inline_email_check"
    /\ email_ret' = InlineEmailCheck(email)
    /\ pc' = "done"
    /\ UNCHANGED <<fs, inst, err, stdout, email>>

-----------------------------------------------------------------------------
(* The customer pipeline: customer_analysis.py, and the utilities of       *)
(* data_utils.py and statistics_utils.py it was factored into.             *)

CustomerColumns == <<"email", "age">>

\* "a@b.ab" passes; "a@b" is too short; "noatsign.ab" has no "@"; "a@b.a" has
\* both characters and length 5.
EmailSamples ==
    {<<"a", "@", "b", ".", "a", "b">>,
     <<"a", "@", "b">>,
     <<"a", "b", ".", "a", "b", "a">>,
     <<"a", "@", "b", ".", "a">>}

Ages == {20, 30, 41}

CustomerRecords == [email : EmailSamples, age : Ages]

CustomerFiles ==
    {[columns |-> CustomerColumns, rows |-> r] :
        r \in SeqsUpTo(CustomerRecords, MaxCustomers)}

\* calculate_age_statistics (statistics_utils.py).
calculate_age_statistics(df) ==
    [average |-> SeriesMean(AsFloats(Column(df, "age"))),
     min |-> SeriesMin(AsFloats(Column(df, "age"))),
     max |-> SeriesMax(AsFloats(Column(df, "age")))]

\* The summary taken from the frame read, before the filter.
InlineAgeStatisticsUnfiltered(df) ==
    [average |-> SeriesMean(AsFloats(Column(customers, "age"))),
     min |-> SeriesMin(AsFloats(Column(customers, "age"))),
     max |-> SeriesMax(AsFloats(Column(customers, "age")))]

\* avg_age, min_age, max_age of process_*_customers: valid_df['age'].mean(),
\* .min() and .max().
InlineAgeStatistics(df) ==
    [average |-> SeriesMean(AsFloats(Column(df, "age"))),
     min |-> SeriesMin(AsFloats(Column(df, "age"))),
     max |-> SeriesMax(AsFloats(Column(df, "age")))]

\* The block process_*_customers prints, and print_customer_statistics.
CustomerReport(title, count, st) ==
    [title |-> title,
     total_valid |-> count,
     average_age |-> FormatFixed(st.average, 10),
     age_range |-> <<st.min, st.max>>]

\* process_<seg>_customers: pd.read_csv of the segment's source.
ProcessCustomersLoad(seg) ==
    /\ pc = "idle"
    /\ fn' = "process_*_customers"
    /\ inst' = seg
    /\ IF fs[CustomerSource(seg)] = Missing
       THEN /\ pc' = "raised"
            /\ err' = "FileNotFoundError"
            /\ UNCHANGED customerVars
       ELSE /\ customers' = ReadCsv(fs[CustomerSource(seg)])
            /\ idx' = 0
            /\ valid_customers' = <<>>
            /\ pc' = "validate"
            /\ UNCHANGED <<err, valid_df, age_stats>>
    /\ UNCHANGED <<fs, stdout>>

\* One turn of the loop over customers.iterrows().
ProcessCustomersRow ==
    /\ pc = "validate"
    /\ fn = "process_*_customers"
    /\ idx < Len(customers.rows)
    /\ LET row == IterRow(customers, idx + 1)
       IN  valid_customers' =
               IF InlineEmailCheck(row.values.email)
               THEN Append(valid_customers, row)
               ELSE valid_customers
    /\ idx' = idx + 1
    /\ UNCHANGED <<fs, pc, fn, inst, err, stdout, customers, valid_df, age_stats>>

\* After the loop: valid_df = pd.DataFrame(valid_customers), then the age
\* statistics; valid_df['age'] raises KeyError on a frame with no such column.
ProcessCustomersStats ==
    /\ pc = "validate"
    /\ fn = "process_*_customers"
    /\ idx = Len(customers.rows)
    /\ LET df == DataFrameOfSeries(valid_customers, customers.columns)
       IN  /\ valid_df' = df
           /\ IF HasColumn(df, "age")
              THEN /\ age_stats' = InlineAgeStatistics(df)
                   /\ pc' = "print"
                   /\ err' = err
              ELSE /\ age_stats' = age_stats
                   /\ pc' = "raised"
                   /\ err' = "KeyError"
    /\ UNCHANGED <<fs, fn, inst, stdout, customers, idx, valid_customers>>

ProcessCustomersPrint ==
    /\ pc = "print"
    /\ fn = "process_*_customers"
    /\ stdout' = Append(stdout,
                   CustomerReport(CustomerTitle(inst), Len(valid_df.rows), age_stats))
    /\ pc' = "save"
    /\ UNCHANGED <<fs, fn, inst, err>>
    /\ UNCHANGED customerVars

\* The save with the sink of process_new_customers left in the copies made
\* of it for the other segments.
ProcessCustomersSaveToNew ==
    /\ pc = "save"
    /\ fn = "process_*_customers"
    /\ \/ /\ fs' = [fs EXCEPT !["outputs/new_customers_clean.csv"] = ToCsv(valid_df)]
          /\ pc' = "done"
          /\ err' = err
       \/ /\ fs' = fs
          /\ pc' = "raised"
          /\ err' = "OSError"
    /\ UNCHANGED <<fn, inst, stdout>>
    /\ UNCHANGED customerVars

\* valid_df.to_csv(sink, index=False); return valid_df.  The sink is written,
\* or it cannot be opened for writing (no outputs directory, no permission)
\* and to_csv raises OSError, which nothing in the function catches.
ProcessCustomersSave ==
    /\ pc = "save"
    /\ fn = "process_*_customers"
    /\ \/ /\ fs' = [fs EXCEPT ![CustomerSink(inst)] = ToCsv(valid_df)]
          /\ pc' = "done"
          /\ err' = err
       \/ /\ fs' = fs
          /\ pc' = "raised"
          /\ err' = "OSError"
    /\ UNCHANGED <<fn, inst, stdout>>
    /\ UNCHANGED customerVars

\* load_and_validate_customers(filepath): pd.read_csv, then
\* validate_customer_data on the frame read.
LoadAndValidateCustomers(seg) ==
    /\ pc = "idle"
    /\ fn' = "validate_customer_data"
    /\ inst' = seg
    /\ IF fs[CustomerSource(seg)] = Missing
       THEN /\ pc' = "raised"
            /\ err' = "FileNotFoundError"
            /\ UNCHANGED customerVars
       ELSE /\ customers' = ReadCsv(fs[CustomerSource(seg)])
            /\ idx' = 0
            /\ valid_customers' = <<>>
            /\ pc' = "validate"
            /\ UNCHANGED <<err, valid_df, age_stats>>
    /\ UNCHANGED <<fs, stdout>>

\* The loop with the accepted row put first in the list.
ValidateCustomerDataRowPrepend ==
    /\ pc = "validate"
    /\ fn = "validate_customer_data"
    /\ idx < Len(customers.rows)
    /\ LET row == IterRow(customers, idx + 1)
       IN  valid_customers' =
               IF validate_email(row.values.email)
               THEN <<row>> \o valid_customers
               ELSE valid_customers
    /\ idx' = idx + 1
    /\ UNCHANGED <<fs, pc, fn, inst, err, stdout, customers, valid_df, age_stats>>

\* One turn of validate_customer_data's loop.
ValidateCustomerDataRow ==
    /\ pc = "validate"
    /\ fn = "validate_customer_data"
    /\ idx < Len(customers.rows)
    /\ LET row == IterRow(customers, idx + 1)
       IN  valid_customers' =
               IF validate_email(row.values.email)
               THEN Append(valid_customers, row)
               ELSE valid_customers
    /\ idx' = idx + 1
    /\ UNCHANGED <<fs, pc, fn, inst, err, stdout, customers, valid_df, age_stats>>

\* return pd.DataFrame(valid_customers)
ValidateCustomerDataReturn ==
    /\ pc = "validate"
    /\ fn = "validate_customer_data"
    /\ idx = Len(customers.rows)
    /\ valid_df' = DataFrameOfSeries(valid_customers, customers.columns)
    /\ pc' = "returned"
    /\ UNCHANGED <<fs, fn, inst, err, stdout, customers, idx, valid_customers, age_stats>>

\* calculate_age_statistics on the validated frame.
CalculateAgeStatistics ==
    /\ pc = "returned"
    /\ fn = "validate_customer_data"
    /\ fn' = "calculate_age_statistics"
    /\ IF HasColumn(valid_df, "age")
       THEN /\ age_stats' = calculate_age_statistics(valid_df)
            /\ pc' = "done"
            /\ err' = err
       ELSE /\ age_stats' = age_stats
            /\ pc' = "raised"
            /\ err' = "KeyError"
    /\ UNCHANGED <<fs, inst, stdout, customers, idx, valid_customers, valid_df>>

-----------------------------------------------------------------------------
(* Specifications of the validator and of the customer pipeline.           *)

InitValidator ==
    /\ IdleControl
    /\ fs = NoFiles
    /\ email \in Emails
    /\ email_ret = FALSE
    /\ NoCustomers
    /\ NoSales
    /\ NoProducts
    /\ NoRun
    /\ NoExamples

NextValidator ==
    /\ \/ ValidateEmail
       \/ CheckEmailInline
    /\ UNCHANGED <<customerVars, salesVars, productVars, runVars, exampleVars>>

SpecValidator == InitValidator /\ [][NextValidator]_vars

\* One segment's source holds a file; the other sources are missing.
InitCustomers ==
    /\ IdleControl
    /\ \E seg \in Segments, file \in CustomerFiles :
           fs = [NoFiles EXCEPT ![CustomerSource(seg)] = file]
    /\ NoEmail
    /\ NoCustomers
    /\ NoSales
    /\ NoProducts
    /\ NoRun
    /\ NoExamples

NextCustomers ==
    /\ \/ \E seg \in Segments : ProcessCustomersLoad(seg)
       \/ ProcessCustomersRow
       \/ ProcessCustomersStats
       \/ ProcessCustomersPrint
       \/ ProcessCustomersSave
       \/ \E seg \in Segments : LoadAndValidateCustomers(seg)
       \/ ValidateCustomerDataRow
       \/ ValidateCustomerDataReturn
       \/ CalculateAgeStatistics
    /\ UNCHANGED <<emailVars, salesVars, productVars, runVars, exampleVars>>

SpecCustomers == InitCustomers /\ [][NextCustomers]_vars

-----------------------------------------------------------------------------
(* The validator's contract.                                               *)

\* The contract of the email check, stated on the positions of the string.
WellFormedContact(e) ==
    /\ \E i \in 1..Len(e) : e[i] = "@"
    /\ \E i \in 1..Len(e) : e[i] = "."
    /\ Len(e) > 5

\* C1: validate_email(e) is true iff e holds an "@", holds a "." and is
\* longer than 5, and the check written out in process_*_customers accepts
\* exactly the same strings.
C1_ValidateEmailContract ==
    (pc = "done" /\ fn \in {"validate_email", "inline_email_check"})
        => (email_ret <=> WellFormedContact(email))

\* validate_email has accepted the six-character address a@b.ab.
C1_Witness ==
    /\ pc = "done"
    /\ fn = "validate_email"
    /\ email = <<"a", "@", "b", ".", "a", "b">>
    /\ email_ret = TRUE

-----------------------------------------------------------------------------
(* The customer pipeline's contracts.                                      *)

\* The positions of the frame read whose email is well formed.
Survivors == {i \in 1..Len(customers.rows) : WellFormedContact(customers.rows[i].email)}

SurvivorAges ==
    LET kept == SelectSeq(customers.rows, LAMBDA r : WellFormedContact(r.email))
    IN  [i \in 1..Len(kept) |-> kept[i].age]

\* C2: validate_customer_data returns exactly the rows of its input whose
\* email passes validate_email, each once and in the input's order, and an
\* empty frame when the input is empty or no row passes.
C2_StableFilter ==
    (pc = "returned" /\ fn = "validate_customer_data") =>
        /\ Len(valid_df.index) = Len(valid_df.rows)
        /\ \A i \in 1..Len(valid_df.rows) :
              /\ valid_df.index[i] + 1 \in 1..Len(customers.rows)
              /\ validate_email(customers.rows[valid_df.index[i] + 1].email)
              /\ valid_df.rows[i] = customers.rows[valid_df.index[i] + 1]
        /\ \A i, j \in 1..Len(valid_df.rows) :
              i < j => valid_df.index[i] < valid_df.index[j]
        /\ \A k \in 1..Len(customers.rows) :
              validate_email(customers.rows[k].email)
                  => \E i \in 1..Len(valid_df.rows) : valid_df.index[i] = k - 1
        /\ (\A k \in 1..Len(customers.rows) :
                ~validate_email(customers.rows[k].email))
              => valid_df.rows = <<>>

\* validate_customer_data has returned two of three rows, dropping the one
\* between them.
C2_Witness ==
    /\ pc = "returned"
    /\ fn = "validate_customer_data"
    /\ Len(customers.rows) = 3
    /\ valid_df.index = <<0, 2>>

\* The age summary `st` is the one of the surviving rows.
AgeSummaryOfSurvivors(st) ==
    LET n == Cardinality(Survivors)
        total == SumSeq(SurvivorAges)
    IN  /\ IsFinite(st.average)
        /\ st.average.n * n = total * st.average.d
        /\ IsFinite(st.min) /\ st.min.d = 1
        /\ IsFinite(st.max) /\ st.max.d = 1
        /\ \E i \in Survivors : customers.rows[i].age = st.min.n
        /\ \E i \in Survivors : customers.rows[i].age = st.max.n
        /\ \A i \in Survivors :
              /\ st.min.n <= customers.rows[i].age
              /\ customers.rows[i].age <= st.max.n

\* C4: in a customer pipeline invocation with at least one valid record the
\* age summary is the one of the records that survived validation (average
\* = sum / count, min and max their smallest and largest age) and the
\* printed Total Valid is their count.
C4_SummaryOfSurvivors ==
    /\ (fn = "process_*_customers" /\ pc \in {"print", "save", "done"}) =>
          /\ Survivors # {}
          /\ AgeSummaryOfSurvivors(age_stats)
    /\ (fn = "process_*_customers" /\ pc \in {"save", "done"}) =>
          LET block == stdout[Len(stdout)]
              n == Cardinality(Survivors)
              total == SumSeq(SurvivorAges)
          IN  /\ block.total_valid = n
              /\ block.age_range = <<age_stats.min, age_stats.max>>
              /\ block.average_age.k = "num"
              /\ 2 * Abs(10 * total - block.average_age.n * n) <= n
    /\ (fn = "calculate_age_statistics" /\ pc = "done") =>
          AgeSummaryOfSurvivors(age_stats)

\* A segment has been processed to its end with a rejected row between two
\* accepted rows of different ages.
C4_Witness ==
    /\ fn = "process_*_customers"
    /\ pc = "done"
    /\ Survivors = {1, 3}
    /\ customers.rows[1].age # customers.rows[3].age
    /\ customers.rows[2].age > customers.rows[1].age
    /\ customers.rows[2].age > customers.rows[3].age

-----------------------------------------------------------------------------
(* The sales pipeline: sales_analysis.py, and the utilities of             *)
(* data_utils.py, statistics_utils.py and visualization_utils.py.          *)

SalesColumns == <<"date", "amount">>

\* A cell of the date column as read: a date, text that is no date, or
\* nothing (read as NaN).
NoDate == ""
DateSamples == {"2024-01-01", "2024-01-02", "not a date", NoDate}

IsDate(s) == s \in {"2024-01-01", "2024-01-02"}

\* pd.to_datetime of one cell (a date): the day's number since 1970-01-01.
ToDatetime(s) ==
    CASE s = "2024-01-01" -> 19723
      [] s = "2024-01-02" -> 19724

\* A cell of the amount column as read: a number, or nothing (NaN).
AmountSamples == {Float(100), Float(251), NaN}

SalesRecords == [date : DateSamples, amount : AmountSamples]

SalesFiles ==
    {[columns |-> SalesColumns, rows |-> r] :
        r \in SeqsUpTo(SalesRecords, MaxSales)}

\* The positions of the rows of df with no missing cell.
Complete(df) ==
    {i \in 1..Len(df.rows) : df.rows[i].date # NoDate /\ ~IsNaN(df.rows[i].amount)}

\* The subsequence of s at the positions in keep.
RECURSIVE Keep(_, _, _)
Keep(s, keep, i) ==
    IF i > Len(s) THEN <<>>
    ELSE (IF i \in keep THEN <<s[i]>> ELSE <<>>) \o Keep(s, keep, i + 1)

\* data.dropna(): the rows with no missing cell, with their labels.
DropNa(df) ==
    [columns |-> df.columns,
     index |-> Keep(df.index, Complete(df), 1),
     rows |-> Keep(df.rows, Complete(df), 1)]

\* data['date'] = pd.to_datetime(data['date']);
\* data['amount'] = data['amount'].astype(float)
ConvertSales(df) ==
    [df EXCEPT !.rows =
        [i \in 1..Len(df.rows) |->
            [date |-> ToDatetime(df.rows[i].date), amount |-> df.rows[i].amount]]]

Parsable(df) == \A i \in 1..Len(df.rows) : IsDate(df.rows[i].date)

\* calculate_sales_statistics (statistics_utils.py).
calculate_sales_statistics(df) ==
    [total |-> SeriesSum(Column(df, "amount")),
     average |-> SeriesMean(Column(df, "amount")),
     max |-> SeriesMax(Column(df, "amount")),
     min |-> SeriesMin(Column(df, "amount"))]

\* total_sales, avg_sales, max_sales, min_sales of analyze_*_region.
InlineSalesStatistics(df) ==
    [total |-> SeriesSum(Column(df, "amount")),
     average |-> SeriesMean(Column(df, "amount")),
     max |-> SeriesMax(Column(df, "amount")),
     min |-> SeriesMin(Column(df, "amount"))]

\* The block analyze_*_region prints, and print_sales_statistics: each value
\* with two decimals.
SalesReport(title, st) ==
    [title |-> title,
     total |-> FormatFixed(st.total, 100),
     average |-> FormatFixed(st.average, 100),
     max |-> FormatFixed(st.max, 100),
     min |-> FormatFixed(st.min, 100)]

\* analyze_<region>_region: pd.read_csv of the region's source.
AnalyzeRegionLoad(region) ==
    /\ pc = "idle"
    /\ fn' = "analyze_*_region"
    /\ inst' = region
    /\ IF fs[SalesSource(region)] = Missing
       THEN /\ pc' = "raised"
            /\ err' = "FileNotFoundError"
            /\ data' = data
       ELSE /\ data' = ReadCsv(fs[SalesSource(region)])
            /\ pc' = "clean"
            /\ err' = err
    /\ UNCHANGED <<fs, stdout, stats>>

\* dropna, then the two conversions; pd.to_datetime raises on text that is
\* no date.
AnalyzeRegionClean ==
    /\ pc = "clean"
    /\ fn = "analyze_*_region"
    /\ IF Parsable(DropNa(data))
       THEN /\ data' = ConvertSales(DropNa(data))
            /\ pc' = "stats"
            /\ err' = err
       ELSE /\ data' = DropNa(data)
            /\ pc' = "raised"
            /\ err' = "ValueError"
    /\ UNCHANGED <<fs, fn, inst, stdout, stats>>

AnalyzeRegionStats ==
    /\ pc = "stats"
    /\ fn = "analyze_*_region"
    /\ stats' = InlineSalesStatistics(data)
    /\ pc' = "print"
    /\ UNCHANGED <<fs, fn, inst, err, stdout, data>>

AnalyzeRegionPrint ==
    /\ pc = "print"
    /\ fn = "analyze_*_region"
    /\ stdout' = Append(stdout, SalesReport(SalesTitle(inst), stats))
    /\ pc' = "plot"
    /\ UNCHANGED <<fs, fn, inst, err, data, stats>>

\* The figure saved to the region's plot file; return the summary.  As for
\* the customers' sink, savefig raises when the file cannot be written.
AnalyzeRegionPlot ==
    /\ pc = "plot"
    /\ fn = "analyze_*_region"
    /\ \/ /\ fs' = [fs EXCEPT ![SalesPlot(inst)] =
                       [columns |-> <<SalesPlotTitle(inst), "date", "amount">>,
                        rows |-> data.rows]]
          /\ pc' = "done"
          /\ err' = err
       \/ /\ fs' = fs
          /\ pc' = "raised"
          /\ err' = "OSError"
    /\ UNCHANGED <<fn, inst, stdout, data, stats>>

\* load_and_clean_sales_data(filepath).
LoadAndCleanSalesData(region) ==
    /\ pc = "idle"
    /\ fn' = "load_and_clean_sales_data"
    /\ inst' = region
    /\ IF fs[SalesSource(region)] = Missing
       THEN /\ pc' = "raised"
            /\ err' = "FileNotFoundError"
            /\ data' = data
       ELSE LET read == ReadCsv(fs[SalesSource(region)])
            IN  IF Parsable(DropNa(read))
                THEN /\ data' = ConvertSales(DropNa(read))
                     /\ pc' = "returned"
                     /\ err' = err
                ELSE /\ data' = DropNa(read)
                     /\ pc' = "raised"
                     /\ err' = "ValueError"
    /\ UNCHANGED <<fs, stdout, stats>>

\* calculate_sales_statistics on the cleaned frame.
CalculateSalesStatistics ==
    /\ pc = "returned"
    /\ fn = "load_and_clean_sales_data"
    /\ fn' = "calculate_sales_statistics"
    /\ stats' = calculate_sales_statistics(data)
    /\ pc' = "done"
    /\ UNCHANGED <<fs, inst, err, stdout, data>>

-----------------------------------------------------------------------------
(* The structure of sales_analysis.py, and the tests of it in              *)
(* test_refactoring.py.                                                    *)

\* The name of the function of a region.
RegionFunction(region) ==
    CASE region = "north" -> "analyze_north_region"
      [] region = "south" -> "analyze_south_region"
      [] region = "east" -> "analyze_east_region"
      [] region = "west" -> "analyze_west_region"

\* The statements of the body of each of the four functions, by kind: the
\* docstring, the read, the three cleaning assignments, the four
\* statistics, the five prints, the nine calls that draw and save the
\* figure, and the return.
RegionBody ==
    <<"Expr", "Assign", "Assign", "Assign", "Assign", "Assign", "Assign",
      "Assign", "Assign", "Expr", "Expr", "Expr", "Expr", "Expr", "Expr",
      "Expr", "Expr", "Expr", "Expr", "Expr", "Expr", "Expr", "Expr", "Return">>

\* sales_analysis.py as ast.parse sees it: its function definitions.
SalesAnalysisAst == [f \in {RegionFunction(r) : r \in Regions} |-> RegionBody]

\* get_function_names(filepath)
get_function_names(tree) == DOMAIN tree

\* count_function_lines(filepath, function_name): len(node.body), or 0 when
\* no function has the name.
count_function_lines(tree, function_name) ==
    IF function_name \in DOMAIN tree THEN Len(tree[function_name]) ELSE 0

\* test_sales_analysis_interface()
TestSalesAnalysisInterface ==
    /\ pc = "idle"
    /\ fn' = "test_sales_analysis_interface"
    /\ LET functions == get_function_names(SalesAnalysisAst)
       IN  IF /\ \A r \in Regions : RegionFunction(r) \in functions
              /\ "analyze_region" \in functions
           THEN /\ pc' = "done"
                /\ err' = err
                /\ stdout' = Append(stdout, [title |-> "sales_analysis.py interface is correct"])
           ELSE /\ pc' = "raised"
                /\ err' = "AssertionError"
                /\ stdout' = stdout
    /\ UNCHANGED <<fs, inst, data, stats>>

\* test_code_reduction()
TestCodeReduction ==
    /\ pc = "idle"
    /\ fn' = "test_code_reduction"
    /\ IF \A r \in Regions :
              count_function_lines(SalesAnalysisAst, RegionFunction(r)) <= 2
       THEN /\ pc' = "done"
            /\ err' = err
            /\ stdout' = Append(stdout, [title |-> "Code duplication successfully reduced"])
       ELSE /\ pc' = "raised"
            /\ err' = "AssertionError"
            /\ stdout' = stdout
    /\ UNCHANGED <<fs, inst, data, stats>>

\* One region's source holds a file; the other sources are missing.
InitSales ==
    /\ IdleControl
    /\ \E region \in Regions, file \in SalesFiles :
           fs = [NoFiles EXCEPT ![SalesSource(region)] = file]
    /\ NoEmail
    /\ NoCustomers
    /\ NoSales
    /\ NoProducts
    /\ NoRun
    /\ NoExamples

NextSales ==
    /\ \/ \E region \in Regions : AnalyzeRegionLoad(region)
       \/ AnalyzeRegionClean
       \/ AnalyzeRegionStats
       \/ AnalyzeRegionPrint
       \/ AnalyzeRegionPlot
       \/ \E region \in Regions : LoadAndCleanSalesData(region)
       \/ CalculateSalesStatistics
       \/ TestSalesAnalysisInterface
       \/ TestCodeReduction
    /\ UNCHANGED <<emailVars, customerVars, productVars, runVars, exampleVars>>

SpecSales == InitSales /\ [][NextSales]_vars

-----------------------------------------------------------------------------
(* Summaries of empty collections.                                         *)

HoldsNaN(st) == \E f \in DOMAIN st : st[f].k = "nan"

\* C3: a summary computed over an empty collection fails with an
\* EmptyCollection error: no summary holds NaN and no NaN is printed.
C3_EmptyCollectionRaises ==
    /\ (fn \in {"analyze_*_region", "calculate_sales_statistics"}
          /\ pc \in {"print", "plot", "done"}) =>
          /\ data.rows # <<>>
          /\ ~HoldsNaN(stats)
    /\ \A i \in 1..Len(stdout) :
          \A f \in {"total", "average", "max", "min"} : stdout[i][f].k # "nan"
    /\ (fn \in {"analyze_*_region", "load_and_clean_sales_data",
                 "calculate_sales_statistics"}
          /\ pc = "raised"
          /\ err \notin {"FileNotFoundError", "ValueError", "OSError"})
          => err = "EmptyCollection"

-----------------------------------------------------------------------------
(* The product pipeline: product_analysis.py, and the utilities of         *)
(* statistics_utils.py.                                                    *)

\* The length of the ranking: products.nlargest(5, 'profit').
TopN == 5

ProductColumns == <<"product_name", "quantity_sold", "price", "cost">>

Quantities == {0, 2}
Prices == {0, 25, 50}
Costs == {20, 25}

ProductRecords == [quantity_sold : Quantities, price : Prices, cost : Costs]

\* A products file: the product in row i is named i.
ProductFile(r) ==
    [columns |-> ProductColumns,
     rows |-> [i \in 1..Len(r) |->
                  [product_name |-> i,
                   quantity_sold |-> r[i].quantity_sold,
                   price |-> r[i].price,
                   cost |-> r[i].cost]]]

ProductFiles == {ProductFile(r) : r \in SeqsUpTo(ProductRecords, MaxProducts)}

\* Products of profit 80, 50 and 10, for the ranking.
RankRecords ==
    {[quantity_sold |-> 2, price |-> 50, cost |-> 10],
     [quantity_sold |-> 2, price |-> 50, cost |-> 25],
     [quantity_sold |-> 2, price |-> 25, cost |-> 20]}

\* Seven products of profits 10, 50, 5, 80, 20, 80, 30.
SevenProducts ==
    [i \in 1..7 |->
        [quantity_sold |-> 1,
         price |-> 20 + <<10, 50, 5, 80, 20, 80, 30>>[i],
         cost |-> 20]]

RankFiles ==
    {ProductFile(r) : r \in SeqsUpTo(RankRecords, MaxRanked) \cup {SevenProducts}}

\* df[c] = vals with the column added once more even when df has it.
SetColumnAppend(df, c, vals) ==
    [columns |-> Append(df.columns, c),
     index |-> df.index,
     rows |-> [i \in 1..Len(df.rows) |->
                  [k \in DOMAIN df.rows[i] \cup {c} |->
                      IF k = c THEN vals[i] ELSE df.rows[i][k]]]]

\* df[c] = vals: a column df has is overwritten in place, a new one is
\* added after the others.
SetColumn(df, c, vals) ==
    [columns |-> IF HasColumn(df, c) THEN df.columns ELSE Append(df.columns, c),
     index |-> df.index,
     rows |-> [i \in 1..Len(df.rows) |->
                  [k \in DOMAIN df.rows[i] \cup {c} |->
                      IF k = c THEN vals[i] ELSE df.rows[i][k]]]]

\* Element-wise arithmetic on two columns of one frame.
ColMul(a, b) == [i \in 1..Len(a) |-> a[i] * b[i]]
ColSub(a, b) == [i \in 1..Len(a) |-> a[i] - b[i]]
ColDiv(a, b) == [i \in 1..Len(a) |-> TrueDiv(a[i], b[i])]
ColTimes(a, c) == [i \in 1..Len(a) |-> FMulInt(a[i], c)]

\* The derived columns with the margin left as a fraction.
calculate_product_metrics_fraction(products_df) ==
    LET c0 == products_df
        c1 == SetColumn(c0, "revenue",
                  ColMul(Column(c0, "quantity_sold"), Column(c0, "price")))
        c2 == SetColumn(c1, "profit",
                  ColSub(Column(c1, "revenue"),
                         ColMul(Column(c1, "quantity_sold"), Column(c1, "cost"))))
    IN  SetColumn(c2, "profit_margin",
            ColDiv(Column(c2, "profit"), Column(c2, "revenue")))

\* calculate_product_metrics (statistics_utils.py), on a copy of its
\* argument.
calculate_product_metrics(products_df) ==
    LET c0 == products_df
        c1 == SetColumn(c0, "revenue",
                  ColMul(Column(c0, "quantity_sold"), Column(c0, "price")))
        c2 == SetColumn(c1, "profit",
                  ColSub(Column(c1, "revenue"),
                         ColMul(Column(c1, "quantity_sold"), Column(c1, "cost"))))
    IN  SetColumn(c2, "profit_margin",
            ColTimes(ColDiv(Column(c2, "profit"), Column(c2, "revenue")), 100))

\* A call of calculate_product_metrics with the name products_df left bound
\* to the caller's frame: the three assignments add their columns to it.
CallProductMetricsInPlace(products_df) ==
    [argument |-> calculate_product_metrics(products_df),
     result |-> calculate_product_metrics(products_df)]

\* A call of calculate_product_metrics, as the caller sees it: the frame it
\* passed, after the call, and the frame returned.  Line 54 rebinds the name
\* products_df to a copy, so the assignments change the copy only.
CallProductMetrics(products_df) ==
    [argument |-> products_df,
     result |-> calculate_product_metrics(products_df)]

\* The three column assignments of calculate_*_metrics (product_analysis.py).
InlineProductMetrics(df) ==
    LET c1 == SetColumn(df, "revenue",
                  ColMul(Column(df, "quantity_sold"), Column(df, "price")))
        c2 == SetColumn(c1, "profit",
                  ColSub(Column(c1, "revenue"),
                         ColMul(Column(c1, "quantity_sold"), Column(c1, "cost"))))
    IN  SetColumn(c2, "profit_margin",
            ColTimes(ColDiv(Column(c2, "profit"), Column(c2, "revenue")), 100))

\* The summary with the margin of the totals.
get_summary_metrics_of_totals(products_df) ==
    [total_revenue |-> SeriesSum(AsFloats(Column(products_df, "revenue"))),
     total_profit |-> SeriesSum(AsFloats(Column(products_df, "profit"))),
     avg_margin |->
         FMulInt(TrueDiv(SumSeq(Column(products_df, "profit")),
                         SumSeq(Column(products_df, "revenue"))), 100)]

\* The summary with a mean that does not skip the margins that are NaN.
get_summary_metrics_no_skip(products_df) ==
    [total_revenue |-> SeriesSum(AsFloats(Column(products_df, "revenue"))),
     total_profit |-> SeriesSum(AsFloats(Column(products_df, "profit"))),
     avg_margin |->
         IF products_df.rows = <<>> THEN NaN
         ELSE FDivInt(FSum(Column(products_df, "profit_margin")),
                      Len(products_df.rows))]

\* get_summary_metrics (statistics_utils.py).
get_summary_metrics(products_df) ==
    [total_revenue |-> SeriesSum(AsFloats(Column(products_df, "revenue"))),
     total_profit |-> SeriesSum(AsFloats(Column(products_df, "profit"))),
     avg_margin |-> SeriesMean(Column(products_df, "profit_margin"))]

\* total_revenue, total_profit, avg_margin of calculate_*_metrics.
InlineSummaryMetrics(df) ==
    [total_revenue |-> SeriesSum(AsFloats(Column(df, "revenue"))),
     total_profit |-> SeriesSum(AsFloats(Column(df, "profit"))),
     avg_margin |-> SeriesMean(Column(df, "profit_margin"))]

\* The positions in `among`, by decreasing value and, among equal values, by
\* increasing position: a stable (merge) sort.
RECURSIVE StableDescending(_, _)
StableDescending(vals, among) ==
    IF among = {} THEN <<>>
    ELSE LET best == CHOOSE i \in among :
                        \A j \in among :
                            vals[j] < vals[i] \/ (vals[j] = vals[i] /\ i <= j)
         IN  <<best>> \o StableDescending(vals, among \ {best})

\* Every order of the positions of vals by decreasing value: what a sort
\* that is not stable may give.
DescendingOrders(vals) ==
    {p \in [1..Len(vals) -> 1..Len(vals)] :
        /\ \A i, j \in 1..Len(vals) : i # j => p[i] # p[j]
        /\ \A i, j \in 1..Len(vals) : i < j => vals[p[i]] >= vals[p[j]]}

\* df.iloc[positions]
ILoc(df, positions) ==
    [columns |-> df.columns,
     index |-> [i \in 1..Len(positions) |-> df.index[positions[i]]],
     rows |-> [i \in 1..Len(positions) |-> df.rows[positions[i]]]]

\* The first n rows of the frame as it stands.
NLargestHead(df, n, c) == {ILoc(df, Take([i \in 1..Len(df.rows) |-> i], n))}

\* df.nlargest(n, c), keep='first', on a column without NaN: the frames it
\* may return.  With n >= len(df) pandas sorts the whole column with
\* sort_values(ascending=False), whose default sort (quicksort) is not
\* stable; otherwise it takes the rows not below the n-th largest value,
\* sorts them with a merge sort and keeps the first n.
NLargest(df, n, c) ==
    LET vals == Column(df, c)
    IN  IF n >= Len(vals)
        THEN {ILoc(df, p) : p \in DescendingOrders(vals)}
        ELSE LET sorted == StableDescending(vals, 1..Len(vals))
                 kth_val == vals[sorted[n]]
                 ns == {i \in 1..Len(vals) : vals[i] >= kth_val}
                 inds == StableDescending(vals, ns)
             IN  {ILoc(df, Take(inds, n))}

\* The summary block calculate_*_metrics prints, and the first lines of
\* print_product_metrics.
ProductReport(title, m) ==
    [title |-> title,
     total_revenue |-> FormatFixed(m.total_revenue, 100),
     total_profit |-> FormatFixed(m.total_profit, 100),
     avg_margin |-> FormatFixed(m.avg_margin, 100)]

\* The ranking block: one line per row of top_products.
RankingReport(top) ==
    [title |-> "Top 5 Products by Profit:",
     lines |-> [i \in 1..Len(top.rows) |->
                   [product_name |-> top.rows[i].product_name,
                    profit |-> FormatFixed(Float(top.rows[i].profit), 100)]]]

\* calculate_<category>_metrics: pd.read_csv of the category's source.
CategoryLoad(cat) ==
    /\ pc = "idle"
    /\ fn' = "calculate_*_metrics"
    /\ inst' = cat
    /\ IF fs[ProductSource(cat)] = Missing
       THEN /\ pc' = "raised"
            /\ err' = "FileNotFoundError"
            /\ products' = products
       ELSE /\ products' = ReadCsv(fs[ProductSource(cat)])
            /\ pc' = "derive"
            /\ err' = err
    /\ UNCHANGED <<fs, stdout, caller_df, products_again, metrics, top_products>>

CategoryDerive ==
    /\ pc = "derive"
    /\ fn = "calculate_*_metrics"
    /\ products' = InlineProductMetrics(products)
    /\ pc' = "summary"
    /\ UNCHANGED <<fs, fn, inst, err, stdout, caller_df, products_again,
                   metrics, top_products>>

CategorySummary ==
    /\ pc = "summary"
    /\ fn = "calculate_*_metrics"
    /\ metrics' = InlineSummaryMetrics(products)
    /\ pc' = "print"
    /\ UNCHANGED <<fs, fn, inst, err, stdout, products, caller_df,
                   products_again, top_products>>

CategoryPrint ==
    /\ pc = "print"
    /\ fn = "calculate_*_metrics"
    /\ stdout' = Append(stdout, ProductReport(ProductTitle(inst), metrics))
    /\ pc' = "rank"
    /\ UNCHANGED <<fs, fn, inst, err>>
    /\ UNCHANGED productVars

\* top_products = products.nlargest(5, 'profit'), printed; return products.
\* The columns of a file with a header and no rows are read with dtype
\* object, and so are the columns derived from them: nlargest raises
\* TypeError on such a column.
CategoryRank ==
    /\ pc = "rank"
    /\ fn = "calculate_*_metrics"
    /\ IF products.rows = <<>>
       THEN /\ pc' = "raised"
            /\ err' = "TypeError"
            /\ UNCHANGED <<top_products, stdout>>
       ELSE /\ \E top \in NLargest(products, TopN, "profit") :
                  /\ top_products' = top
                  /\ stdout' = Append(stdout, RankingReport(top))
            /\ pc' = "done"
            /\ err' = err
    /\ UNCHANGED <<fs, fn, inst, products, caller_df, products_again, metrics>>

\* calculate_product_metrics on the frame read from a category's source.
CalculateProductMetrics(cat) ==
    /\ pc = "idle"
    /\ fs[ProductSource(cat)] # Missing
    /\ fn' = "calculate_product_metrics"
    /\ inst' = cat
    /\ LET call == CallProductMetrics(ReadCsv(fs[ProductSource(cat)]))
       IN  /\ caller_df' = call.argument
           /\ products' = call.result
    /\ pc' = "returned"
    /\ UNCHANGED <<fs, err, stdout, products_again, metrics, top_products>>

\* calculate_product_metrics on its own result.
CalculateProductMetricsAgain ==
    /\ pc = "returned"
    /\ fn = "calculate_product_metrics"
    /\ LET call == CallProductMetrics(products)
       IN  /\ products' = call.argument
           /\ products_again' = call.result
    /\ pc' = "twice"
    /\ UNCHANGED <<fs, fn, inst, err, stdout, caller_df, metrics, top_products>>

\* get_summary_metrics on the frame with the derived columns.
GetSummaryMetrics ==
    /\ pc = "returned"
    /\ fn = "calculate_product_metrics"
    /\ fn' = "get_summary_metrics"
    /\ metrics' = get_summary_metrics(products)
    /\ pc' = "done"
    /\ UNCHANGED <<fs, inst, err, stdout, products, caller_df, products_again,
                   top_products>>

\* One category's source holds a file; the other sources are missing.
InitProducts ==
    /\ IdleControl
    /\ \E cat \in Categories, file \in ProductFiles :
           fs = [NoFiles EXCEPT ![ProductSource(cat)] = file]
    /\ NoEmail
    /\ NoCustomers
    /\ NoSales
    /\ NoProducts
    /\ NoRun
    /\ NoExamples

InitRanking ==
    /\ IdleControl
    /\ \E cat \in Categories, file \in RankFiles :
           fs = [NoFiles EXCEPT ![ProductSource(cat)] = file]
    /\ NoEmail
    /\ NoCustomers
    /\ NoSales
    /\ NoProducts
    /\ NoRun
    /\ NoExamples

NextProducts ==
    /\ \/ \E cat \in Categories : CategoryLoad(cat)
       \/ CategoryDerive
       \/ CategorySummary
       \/ CategoryPrint
       \/ CategoryRank
       \/ \E cat \in Categories : CalculateProductMetrics(cat)
       \/ CalculateProductMetricsAgain
       \/ GetSummaryMetrics
    /\ UNCHANGED <<emailVars, customerVars, salesVars, runVars, exampleVars>>

SpecProducts == InitProducts /\ [][NextProducts]_vars

SpecRanking == InitRanking /\ [][NextProducts]_vars

-----------------------------------------------------------------------------
(* The product pipeline's contracts.                                       *)

\* The states in which `products` holds the derived columns, and the frame
\* they were derived from.
Derived ==
    \/ fn = "calculate_product_metrics" /\ pc \in {"returned", "twice"}
    \/ fn = "get_summary_metrics" /\ pc = "done"
    \/ fn = "calculate_*_metrics" /\ pc \in {"summary", "print", "rank", "done"}

BaseFrame ==
    IF fn = "calculate_*_metrics"
    THEN ReadCsv(fs[ProductSource(inst)])
    ELSE caller_df

\* The states in which `metrics` holds the summary of `products`.
Summarized ==
    \/ fn = "get_summary_metrics" /\ pc = "done"
    \/ fn = "calculate_*_metrics" /\ pc \in {"print", "rank", "done"}

\* C5: the derived-column computation adds to every record revenue =
\* quantity_sold * price, profit = revenue - quantity_sold * cost and
\* profit_margin = (profit / revenue) * 100 (a non-finite float when revenue
\* is 0), from the record's own fields, and keeps the records, their order
\* and their base fields.
C5_DerivedColumns ==
    Derived =>
        /\ products.columns = BaseFrame.columns \o <<"revenue", "profit", "profit_margin">>
        /\ products.index = BaseFrame.index
        /\ Len(products.rows) = Len(BaseFrame.rows)
        /\ \A i \in 1..Len(products.rows) :
              LET a == BaseFrame.rows[i]
                  b == products.rows[i]
              IN  /\ b.product_name = a.product_name
                  /\ b.quantity_sold = a.quantity_sold
                  /\ b.price = a.price
                  /\ b.cost = a.cost
                  /\ b.revenue = a.quantity_sold * a.price
                  /\ b.profit = a.quantity_sold * a.price - a.quantity_sold * a.cost
                  /\ IF b.revenue # 0
                     THEN /\ IsFinite(b.profit_margin)
                          /\ b.profit_margin.n * b.revenue
                                = 100 * b.profit * b.profit_margin.d
                     ELSE ~IsFinite(b.profit_margin)

\* calculate_product_metrics has returned three records whose margins are
\* 50, 20 and 60.
C5_Witness ==
    /\ fn = "calculate_product_metrics"
    /\ pc = "returned"
    /\ Len(products.rows) = 3
    /\ Column(products, "profit_margin") = <<Float(50), Float(20), Float(60)>>

\* C6: a record whose revenue is 0 gets revenue 0 and the "undefined" margin
\* marker (NaN), it alone, no error is raised and the pipeline completes.
C6_ZeroRevenueMarked ==
    /\ Derived =>
          \A i \in 1..Len(products.rows) :
              IF products.rows[i].revenue = 0
              THEN IsNaN(products.rows[i].profit_margin)
              ELSE IsFinite(products.rows[i].profit_margin)
    /\ (fn = "calculate_*_metrics" /\ pc = "raised" /\ products.rows # <<>>)
          => err = "FileNotFoundError"

\* C7: calculate_product_metrics applied to its own result gives that result
\* again: the same records, the same derived values, the same columns.
C7_Idempotent ==
    (fn = "calculate_product_metrics" /\ pc = "twice") => products_again = products

\* calculate_product_metrics has been applied twice to a frame with a
\* zero-quantity record and a record of margin 50.
C7_Witness ==
    /\ fn = "calculate_product_metrics"
    /\ pc = "twice"
    /\ Len(products_again.rows) = 2
    /\ products_again.rows[1].quantity_sold = 0
    /\ products_again.rows[2].profit_margin = Float(50)
    /\ Len(products_again.columns) = 7

\* The margins of the records of `products` that are not NaN.
DefinedMargins ==
    LET kept == SelectSeq(products.rows, LAMBDA r : ~IsNaN(r.profit_margin))
    IN  [i \in 1..Len(kept) |-> kept[i].profit_margin]

\* C8, as amended: total_revenue and total_profit are the sums over all
\* records, and avg_margin is the mean of profit_margin over the records
\* whose profit_margin is not NaN (NaN when there is none): an average of
\* margins, not the margin of the totals.
C8_AverageOfDefinedMargins ==
    Summarized =>
        /\ metrics.total_revenue = Float(SumSeq(Column(products, "revenue")))
        /\ metrics.total_profit = Float(SumSeq(Column(products, "profit")))
        /\ metrics.avg_margin =
              IF DefinedMargins = <<>> THEN NaN
              ELSE FDivInt(FSum(DefinedMargins), Len(DefinedMargins))

\* C8, as stated: avg_margin is the mean of profit_margin over all records.
C8_AverageOfAllMargins ==
    (Summarized /\ products.rows # <<>>) =>
        metrics.avg_margin =
            FDivInt(FSum(Column(products, "profit_margin")), Len(products.rows))

\* get_summary_metrics has summarized records of (revenue 100, profit 50)
\* and (revenue 50, profit 10) with a zero-quantity record between them:
\* avg_margin is 35, and the margin of the totals would be 40.
C8_Witness ==
    /\ fn = "get_summary_metrics"
    /\ pc = "done"
    /\ Column(products, "revenue") = <<100, 0, 50>>
    /\ Column(products, "profit") = <<50, 0, 10>>
    /\ IsNaN(products.rows[2].profit_margin)
    /\ metrics.avg_margin = Float(35)
    /\ metrics.total_revenue = Float(150)
    /\ metrics.total_profit = Float(60)

\* The positions of `products` whose label is not in the ranking.
LeftOut ==
    {k \in 1..Len(products.rows) :
        \A i \in 1..Len(top_products.rows) : top_products.index[i] # products.index[k]}

Ranked == fn = "calculate_*_metrics" /\ pc = "done"

\* C9: the ranking holds min(5, number of records) records of the category,
\* each at most once, by non-increasing profit, and no record left out has
\* a profit above one in the ranking; the printed lines are its rows.
C9_TopFiveByProfit ==
    Ranked =>
        /\ Len(top_products.rows) =
              (IF Len(products.rows) < 5 THEN Len(products.rows) ELSE 5)
        /\ Len(top_products.index) = Len(top_products.rows)
        /\ \A i, j \in 1..Len(top_products.rows) :
              i # j => top_products.index[i] # top_products.index[j]
        /\ \A i \in 1..Len(top_products.rows) :
              \E k \in 1..Len(products.rows) :
                  /\ products.index[k] = top_products.index[i]
                  /\ products.rows[k] = top_products.rows[i]
        /\ \A i, j \in 1..Len(top_products.rows) :
              i < j => top_products.rows[i].profit >= top_products.rows[j].profit
        /\ \A k \in LeftOut : \A i \in 1..Len(top_products.rows) :
              products.rows[k].profit <= top_products.rows[i].profit
        /\ LET block == stdout[Len(stdout)]
           IN  /\ Len(block.lines) = Len(top_products.rows)
               /\ \A i \in 1..Len(block.lines) :
                     /\ block.lines[i].product_name = top_products.rows[i].product_name
                     /\ block.lines[i].profit.n = 100 * top_products.rows[i].profit

\* The seven products of profits 10, 50, 5, 80, 20, 80, 30 have been ranked:
\* the rows labelled 3, 5, 1, 6, 4.
C9_Witness ==
    /\ Ranked
    /\ Column(products, "profit") = <<10, 50, 5, 80, 20, 80, 30>>
    /\ top_products.index = <<3, 5, 1, 6, 4>>

\* C10: in the ranking, records of equal profit stand in input order, and of
\* the records tied at the cut-off the earlier ones are kept.
C10_TiesInInputOrder ==
    Ranked =>
        /\ \A i, j \in 1..Len(top_products.rows) :
              (i < j /\ top_products.rows[i].profit = top_products.rows[j].profit)
                  => top_products.index[i] < top_products.index[j]
        /\ \A k \in LeftOut : \A i \in 1..Len(top_products.rows) :
              products.rows[k].profit = top_products.rows[i].profit
                  => top_products.index[i] < products.index[k]

-----------------------------------------------------------------------------
(* generate_customer_report (customer_analysis.py).                        *)

\* A tag outside the three the function tests for.
CustomerTypes == Segments \cup {"premium"}

\* The files read, with the path of the 'new' branch left in the
\* 'returning' branch.
ReportSourceCopied(customer_type) ==
    CASE customer_type = "new" -> "outputs/new_customers_clean.csv"
      [] customer_type = "returning" -> "outputs/new_customers_clean.csv"
      [] customer_type = "vip" -> "outputs/vip_customers_clean.csv"

\* The file read for a tag.
ReportSource(customer_type) ==
    CASE customer_type = "new" -> "outputs/new_customers_clean.csv"
      [] customer_type = "returning" -> "outputs/returning_customers_clean.csv"
      [] customer_type = "vip" -> "outputs/vip_customers_clean.csv"

ReportTitle(customer_type) ==
    CASE customer_type = "new" -> "New Customer Report"
      [] customer_type = "returning" -> "Returning Customer Report"
      [] customer_type = "vip" -> "VIP Customer Report"

ReportTitles == {ReportTitle(t) : t \in Segments}

\* len(df[df['gender'] == g])
CountGender(df, g) == Cardinality({i \in 1..Len(df.rows) : df.rows[i].gender = g})

\* The lines printed before df['age'] and df['gender'] are looked up, and
\* the whole block.
ReportHead(title, df) ==
    [title |-> title, total_customers |-> Len(df.rows)]

ReportWithAge(title, df) ==
    [title |-> title,
     total_customers |-> Len(df.rows),
     average_age |-> FormatFixed(SeriesMean(AsFloats(Column(df, "age"))), 10)]

ReportBlock(title, df) ==
    [title |-> title,
     total_customers |-> Len(df.rows),
     average_age |-> FormatFixed(SeriesMean(AsFloats(Column(df, "age"))), 10),
     male |-> CountGender(df, "M"),
     female |-> CountGender(df, "F")]

\* generate_customer_report with its last branch an else: every tag that is
\* neither 'new' nor 'returning' is reported as 'vip'.
GenerateCustomerReportElse(customer_type) ==
    /\ pc = "idle"
    /\ fn' = "generate_customer_report"
    /\ inst' = customer_type
    /\ LET tag == IF customer_type \in {"new", "returning"} THEN customer_type ELSE "vip"
       IN  IF fs[ReportSource(tag)] = Missing
           THEN /\ pc' = "raised"
                /\ err' = "FileNotFoundError"
                /\ stdout' = stdout
           ELSE LET df == ReadCsv(fs[ReportSource(tag)])
                    title == ReportTitle(tag)
                IN  IF ~HasColumn(df, "age")
                    THEN /\ pc' = "raised"
                         /\ err' = "KeyError"
                         /\ stdout' = Append(stdout, ReportHead(title, df))
                    ELSE IF ~HasColumn(df, "gender")
                    THEN /\ pc' = "raised"
                         /\ err' = "KeyError"
                         /\ stdout' = Append(stdout, ReportWithAge(title, df))
                    ELSE /\ pc' = "done"
                         /\ err' = err
                         /\ stdout' = Append(stdout, ReportBlock(title, df))
    /\ UNCHANGED fs

\* generate_customer_report(customer_type).  No branch of the if/elif chain
\* binds df and title for another tag, and the first print then raises
\* UnboundLocalError; pd.read_csv raises on a missing file; a column the
\* file lacks raises KeyError after the lines before it were printed.
GenerateCustomerReport(customer_type) ==
    /\ pc = "idle"
    /\ fn' = "generate_customer_report"
    /\ inst' = customer_type
    /\ IF customer_type \notin Segments
       THEN /\ pc' = "raised"
            /\ err' = "UnboundLocalError"
            /\ stdout' = stdout
       ELSE IF fs[ReportSource(customer_type)] = Missing
       THEN /\ pc' = "raised"
            /\ err' = "FileNotFoundError"
            /\ stdout' = stdout
       ELSE LET df == ReadCsv(fs[ReportSource(customer_type)])
                title == ReportTitle(customer_type)
            IN  IF ~HasColumn(df, "age")
                THEN /\ pc' = "raised"
                     /\ err' = "KeyError"
                     /\ stdout' = Append(stdout, ReportHead(title, df))
                ELSE IF ~HasColumn(df, "gender")
                THEN /\ pc' = "raised"
                     /\ err' = "KeyError"
                     /\ stdout' = Append(stdout, ReportWithAge(title, df))
                ELSE /\ pc' = "done"
                     /\ err' = err
                     /\ stdout' = Append(stdout, ReportBlock(title, df))
    /\ UNCHANGED fs

-----------------------------------------------------------------------------
(* Runs: the __main__ block of a script calling its functions in turn, or  *)
(* a client that imported the script calling them in any order.            *)

\* The longest sequence of calls a client makes.
MaxCalls == 2

Modules == {"sales_analysis", "customer_analysis", "product_analysis"}

Call(f, i) == [fn |-> f, inst |-> i]

\* The calls of each __main__ block, in order.
MainCalls(m) ==
    CASE m = "sales_analysis" ->
            <<Call("analyze_*_region", "north"), Call("analyze_*_region", "south"),
              Call("analyze_*_region", "east"), Call("analyze_*_region", "west")>>
      [] m = "customer_analysis" ->
            <<Call("process_*_customers", "new"),
              Call("process_*_customers", "returning"),
              Call("process_*_customers", "vip"),
              Call("generate_customer_report", "new"),
              Call("generate_customer_report", "returning"),
              Call("generate_customer_report", "vip")>>
      [] m = "product_analysis" ->
            <<Call("calculate_*_metrics", "electronics"),
              Call("calculate_*_metrics", "clothing"),
              Call("calculate_*_metrics", "home_goods")>>

\* The functions of a script a client may call, with their arguments.
Callable(m) ==
    CASE m = "sales_analysis" -> {Call("analyze_*_region", r) : r \in Regions}
      [] m = "customer_analysis" ->
            {Call("process_*_customers", s) : s \in Segments}
                \cup {Call("generate_customer_report", t) : t \in CustomerTypes}
      [] m = "product_analysis" ->
            {Call("calculate_*_metrics", c) : c \in Categories}

\* What a function that returns nothing, or that raised, hands back.
None == [none |-> TRUE]

\* The value of the return statement of the function that is at its end.
ReturnValue ==
    CASE fn = "analyze_*_region" -> stats
      [] fn = "process_*_customers" -> valid_df
      [] fn = "calculate_*_metrics" -> products
      [] fn = "generate_customer_report" -> None

\* The locals of a function are gone once it has returned or raised.
DiscardLocals ==
    /\ customers' = EmptyDataFrame
    /\ idx' = 0
    /\ valid_customers' = <<>>
    /\ valid_df' = EmptyDataFrame
    /\ age_stats' = NoStats
    /\ data' = EmptyDataFrame
    /\ stats' = NoSalesStats
    /\ caller_df' = EmptyDataFrame
    /\ products' = EmptyDataFrame
    /\ products_again' = EmptyDataFrame
    /\ metrics' = NoMetrics
    /\ top_products' = EmptyDataFrame

\* The first statement of the function called.
Invoke(c) ==
    CASE c.fn = "analyze_*_region" ->
            AnalyzeRegionLoad(c.inst) /\ UNCHANGED <<customerVars, productVars>>
      [] c.fn = "process_*_customers" ->
            ProcessCustomersLoad(c.inst) /\ UNCHANGED <<salesVars, productVars>>
      [] c.fn = "generate_customer_report" ->
            GenerateCustomerReport(c.inst)
                /\ UNCHANGED <<customerVars, salesVars, productVars>>
      [] c.fn = "calculate_*_metrics" ->
            CategoryLoad(c.inst) /\ UNCHANGED <<customerVars, salesVars>>

\* The __main__ block makes its next call.
MainCall ==
    /\ caller = "__main__"
    /\ exit = "running"
    /\ pc = "idle"
    /\ Len(calls) < Len(MainCalls(module))
    /\ Invoke(MainCalls(module)[Len(calls) + 1])
    /\ UNCHANGED <<emailVars, runVars, exampleVars>>

\* A client calls one of the script's functions.
ClientCall ==
    /\ caller = "client"
    /\ pc = "idle"
    /\ Len(calls) < MaxCalls
    /\ \E c \in Callable(module) : Invoke(c)
    /\ UNCHANGED <<emailVars, runVars, exampleVars>>

\* The steps of the function that was called.
SalesStep ==
    /\ module = "sales_analysis"
    /\ \/ AnalyzeRegionClean
       \/ AnalyzeRegionStats
       \/ AnalyzeRegionPrint
       \/ AnalyzeRegionPlot
    /\ UNCHANGED <<emailVars, customerVars, productVars, runVars, exampleVars>>

CustomerStep ==
    /\ module = "customer_analysis"
    /\ \/ ProcessCustomersRow
       \/ ProcessCustomersStats
       \/ ProcessCustomersPrint
       \/ ProcessCustomersSave
    /\ UNCHANGED <<emailVars, salesVars, productVars, runVars, exampleVars>>

ProductStep ==
    /\ module = "product_analysis"
    /\ \/ CategoryDerive
       \/ CategorySummary
       \/ CategoryPrint
       \/ CategoryRank
    /\ UNCHANGED <<emailVars, customerVars, salesVars, runVars, exampleVars>>

\* The function returns to its caller, which keeps the value.
Return ==
    /\ module # "none"
    /\ pc = "done"
    /\ calls' = Append(calls, [fn |-> fn, inst |-> inst, err |-> "none",
                               value |-> ReturnValue])
    /\ pc' = "idle"
    /\ DiscardLocals
    /\ UNCHANGED <<fs, fn, inst, err, stdout, emailVars, module, caller, exit,
                   exampleVars>>

\* The exception leaves the function.  No __main__ block has a try
\* statement: the exception ends the script with a traceback.
MainTraceback ==
    /\ caller = "__main__"
    /\ pc = "raised"
    /\ exit = "running"
    /\ calls' = Append(calls, [fn |-> fn, inst |-> inst, err |-> err,
                               value |-> None])
    /\ exit' = "traceback"
    /\ DiscardLocals
    /\ UNCHANGED <<fs, pc, fn, inst, err, stdout, emailVars, module, caller,
                   exampleVars>>

\* A client catches the exception and goes on.
ClientCatch ==
    /\ caller = "client"
    /\ pc = "raised"
    /\ calls' = Append(calls, [fn |-> fn, inst |-> inst, err |-> err,
                               value |-> None])
    /\ pc' = "idle"
    /\ err' = "none"
    /\ DiscardLocals
    /\ UNCHANGED <<fs, fn, inst, stdout, emailVars, module, caller, exit,
                   exampleVars>>

\* After its last call the __main__ block prints its closing line.
MainComplete ==
    /\ caller = "__main__"
    /\ exit = "running"
    /\ pc = "idle"
    /\ Len(calls) = Len(MainCalls(module))
    /\ exit' = "complete"
    /\ UNCHANGED <<fs, pc, fn, inst, err, stdout, emailVars, customerVars,
                   salesVars, productVars, module, caller, calls, exampleVars>>

\* The sources a run may find: no file, files of different contents, and a
\* file its pipeline fails on.
RunSalesFiles ==
    {Missing,
     [columns |-> SalesColumns,
      rows |-> <<[date |-> "2024-01-01", amount |-> Float(100)],
                 [date |-> "2024-01-02", amount |-> Float(251)]>>],
     [columns |-> SalesColumns,
      rows |-> <<[date |-> "2024-01-01", amount |-> NaN],
                 [date |-> "2024-01-02", amount |-> Float(100)]>>],
     [columns |-> SalesColumns,
      rows |-> <<[date |-> "not a date", amount |-> Float(100)]>>]}

ReportColumns == <<"email", "age", "gender">>

GoodEmail == <<"a", "@", "b", ".", "a", "b">>
ShortEmail == <<"a", "@", "b">>

RunCustomerFiles ==
    {Missing,
     [columns |-> ReportColumns,
      rows |-> <<[email |-> GoodEmail, age |-> 20, gender |-> "M"],
                 [email |-> ShortEmail, age |-> 30, gender |-> "F"],
                 [email |-> GoodEmail, age |-> 41, gender |-> "F"]>>],
     [columns |-> ReportColumns,
      rows |-> <<[email |-> GoodEmail, age |-> 30, gender |-> "F"]>>],
     [columns |-> ReportColumns,
      rows |-> <<[email |-> ShortEmail, age |-> 20, gender |-> "M"]>>],
     [columns |-> CustomerColumns,
      rows |-> <<[email |-> GoodEmail, age |-> 30]>>]}

\* What an earlier run may have left in outputs/.
StaleSink ==
    [columns |-> ReportColumns,
     rows |-> <<[email |-> GoodEmail, age |-> 41, gender |-> "M"],
                [email |-> GoodEmail, age |-> 41, gender |-> "M"],
                [email |-> GoodEmail, age |-> 20, gender |-> "F"]>>]

RunProductFiles ==
    {Missing,
     ProductFile(<<>>),
     ProductFile(<<[quantity_sold |-> 2, price |-> 50, cost |-> 25],
                   [quantity_sold |-> 2, price |-> 25, cost |-> 20]>>),
     ProductFile(<<[quantity_sold |-> 0, price |-> 50, cost |-> 25],
                   [quantity_sold |-> 2, price |-> 50, cost |-> 20]>>)}

\* The file systems a run of script m may start in.
RunFileSystems(m) ==
    CASE m = "sales_analysis" ->
            {[p \in Paths |->
                 IF \E r \in Regions : p = SalesSource(r)
                 THEN g[CHOOSE r \in Regions : p = SalesSource(r)]
                 ELSE Missing] : g \in [Regions -> RunSalesFiles]}
      [] m = "customer_analysis" ->
            {[p \in Paths |->
                 IF \E s \in Segments : p = CustomerSource(s)
                 THEN g[CHOOSE s \in Segments : p = CustomerSource(s)]
                 ELSE IF \E s \in Segments : p = CustomerSink(s)
                 THEN old
                 ELSE Missing] :
                     g \in [Segments -> RunCustomerFiles], old \in {Missing, StaleSink}}
      [] m = "product_analysis" ->
            {[p \in Paths |->
                 IF \E c \in Categories : p = ProductSource(c)
                 THEN g[CHOOSE c \in Categories : p = ProductSource(c)]
                 ELSE Missing] : g \in [Categories -> RunProductFiles]}

InitRun ==
    /\ IdleControl
    /\ NoEmail
    /\ NoCustomers
    /\ NoSales
    /\ NoProducts
    /\ NoExamples
    /\ module \in Modules
    /\ caller \in {"__main__", "client"}
    /\ calls = <<>>
    /\ exit = "running"
    /\ fs \in RunFileSystems(module)

NextRun ==
    \/ MainCall
    \/ ClientCall
    \/ SalesStep
    \/ CustomerStep
    \/ ProductStep
    \/ Return
    \/ MainTraceback
    \/ ClientCatch
    \/ MainComplete

SpecRun == InitRun /\ [][NextRun]_vars

-----------------------------------------------------------------------------
(* Runs over several dataset instances.                                    *)

\* C11: an error in one invocation of a run does not reach its siblings:
\* when the script has ended, every call of its __main__ block has been
\* made and has an outcome of its own, and the script ended normally.
C11_SiblingsStillRun ==
    (caller = "__main__" /\ exit # "running") =>
        /\ exit = "complete"
        /\ Len(calls) = Len(MainCalls(module))
        /\ \A k \in 1..Len(MainCalls(module)) :
              /\ k <= Len(calls)
              /\ calls[k].fn = MainCalls(module)[k].fn
              /\ calls[k].inst = MainCalls(module)[k].inst

\* The dataset instance a path belongs to.
Owner(p) ==
    CASE p \in {"data/new_customers.csv", "outputs/new_customers_clean.csv"} -> "new"
      [] p \in {"data/returning_customers.csv",
                "outputs/returning_customers_clean.csv"} -> "returning"
      [] p \in {"data/vip_customers.csv", "outputs/vip_customers_clean.csv"} -> "vip"
      [] p \in {"data/north_sales.csv", "outputs/north_sales_plot.png"} -> "north"
      [] p \in {"data/south_sales.csv", "outputs/south_sales_plot.png"} -> "south"
      [] p \in {"data/east_sales.csv", "outputs/east_sales_plot.png"} -> "east"
      [] p \in {"data/west_sales.csv", "outputs/west_sales_plot.png"} -> "west"
      [] p = "data/electronics_products.csv" -> "electronics"
      [] p = "data/clothing_products.csv" -> "clothing"
      [] p = "data/home_goods_products.csv" -> "home_goods"

IsSource(p) ==
    p \in {"data/new_customers.csv", "data/returning_customers.csv",
           "data/vip_customers.csv", "data/north_sales.csv",
           "data/south_sales.csv", "data/east_sales.csv", "data/west_sales.csv",
           "data/electronics_products.csv", "data/clothing_products.csv",
           "data/home_goods_products.csv"}

\* The source of a pipeline function's instance.
SourceOf(f, i) ==
    CHOOSE p \in Paths : IsSource(p) /\ Owner(p) = i

\* The rows of a customers file whose contact is well formed, and the
\* summary of their ages.
KeptRows(file) == SelectSeq(file.rows, LAMBDA r : WellFormedContact(r.email))

KeptSummary(file) ==
    LET ages == [i \in 1..Len(KeptRows(file)) |-> Float(KeptRows(file)[i].age)]
    IN  [average |-> SeriesMean(ages), min |-> SeriesMin(ages), max |-> SeriesMax(ages)]

\* What a pipeline function returns for a source, as a function of the
\* source's contents alone.
ResultOfSource(f, file, value) ==
    CASE f = "analyze_*_region" ->
            value = calculate_sales_statistics(ConvertSales(DropNa(ReadCsv(file))))
      [] f = "process_*_customers" ->
            /\ value.columns = file.columns
            /\ value.rows = KeptRows(file)
      [] f = "calculate_*_metrics" ->
            value = calculate_product_metrics(ReadCsv(file))

\* What it prints for a source: the blocks at the end of the output.
ReportOfSource(f, i, file, out) ==
    CASE f = "analyze_*_region" ->
            out[Len(out)] =
                SalesReport(SalesTitle(i),
                    calculate_sales_statistics(ConvertSales(DropNa(ReadCsv(file)))))
      [] f = "process_*_customers" ->
            out[Len(out)] =
                CustomerReport(CustomerTitle(i), Len(KeptRows(file)), KeptSummary(file))
      [] f = "calculate_*_metrics" ->
            LET derived == calculate_product_metrics(ReadCsv(file))
            IN  /\ Len(out) >= 2
                /\ out[Len(out) - 1] =
                       ProductReport(ProductTitle(i), get_summary_metrics(derived))
                /\ \E top \in NLargest(derived, TopN, "profit") :
                       out[Len(out)] = RankingReport(top)

PipelineFunctions ==
    {"analyze_*_region", "process_*_customers", "calculate_*_metrics"}

C12_OfSourceOnly ==
    /\ \A k \in 1..Len(calls) :
          (calls[k].fn \in PipelineFunctions /\ calls[k].err = "none") =>
              ResultOfSource(calls[k].fn, fs[SourceOf(calls[k].fn, calls[k].inst)],
                             calls[k].value)
    /\ (fn \in PipelineFunctions /\ pc = "done") =>
          /\ ResultOfSource(fn, fs[SourceOf(fn, inst)], ReturnValue)
          /\ ReportOfSource(fn, inst, fs[SourceOf(fn, inst)], stdout)

C12_OwnFilesOnly ==
    \A p \in Paths :
        fs'[p] # fs[p] =>
            /\ ~IsSource(p)
            /\ fn' \in PipelineFunctions
            /\ Owner(p) = inst'

\* C12: what a pipeline function returns and prints for an instance is a
\* function of that instance's source alone, whatever was called before it
\* and however that ended, and a step writes no file but the sink or plot of
\* the instance it was called for; no step writes a source.
C12_InvocationsIndependent ==
    /\ []C12_OfSourceOnly
    /\ [][C12_OwnFilesOnly]_vars

\* A client's second call has run to its end after its first call, for
\* another instance, raised; and a client's second call for the same
\* instance returned.
C12_Witness ==
    /\ caller = "client"
    /\ pc = "done"
    /\ fn \in PipelineFunctions
    /\ Len(calls) = 1
    /\ calls[1].err # "none"
    /\ calls[1].inst # inst

-----------------------------------------------------------------------------
(* A failure to persist.                                                   *)

\* C13: when writing the sink fails, the validated collection is still
\* handed back to the caller of process_*_customers, and the block printed
\* for the instance stands.
C13_PersistFailureKeepsResult ==
    \A k \in 1..Len(calls) :
        (calls[k].fn = "process_*_customers" /\ calls[k].err = "OSError") =>
            LET file == fs[SourceOf(calls[k].fn, calls[k].inst)]
            IN  /\ calls[k].value # None
                /\ ResultOfSource(calls[k].fn, file, calls[k].value)
                /\ \E i \in 1..Len(stdout) :
                      stdout[i] = CustomerReport(CustomerTitle(calls[k].inst),
                                      Len(KeptRows(file)), KeptSummary(file))

-----------------------------------------------------------------------------
(* The four region functions as one pipeline.                              *)

\* C14: given the same source, each region function returns the summary
\* calculate_sales_statistics gives for load_and_clean_sales_data of the
\* source, printed under its own label and plotted to its own file; and
\* each is a delegation of at most 2 statements to a shared analyze_region,
\* as test_refactoring.py tests.
C14_RegionsDelegate ==
    /\ (fn = "analyze_*_region" /\ pc = "done") =>
          LET expected ==
                  calculate_sales_statistics(
                      ConvertSales(DropNa(ReadCsv(fs[SalesSource(inst)]))))
          IN  /\ stats = expected
              /\ stdout[Len(stdout)] = SalesReport(SalesTitle(inst), expected)
              /\ fs[SalesPlot(inst)] # Missing
    /\ (fn \in {"test_sales_analysis_interface", "test_code_reduction"}) =>
          /\ pc = "done"
          /\ "analyze_region" \in get_function_names(SalesAnalysisAst)
          /\ \A r \in Regions :
                count_function_lines(SalesAnalysisAst, RegionFunction(r)) <= 2

-----------------------------------------------------------------------------
(* slow_code_examples.py: counting items.                                  *)

\* The longest list given to the examples.
MaxItems == 4

ItemNames == {"a", "b", "c"}

\* result[item] = v on a dictionary.
DictSet(d, key, v) ==
    [k \in DOMAIN d \cup {key} |-> IF k = key THEN v ELSE d[k]]

\* result.get(item, default)
DictGet(d, key, default) == IF key \in DOMAIN d THEN d[key] ELSE default

\* count_items_slow(items) or count_items_fast(items) is called.
CountItemsCall(f) ==
    /\ pc = "idle"
    /\ Len(calls) < MaxCalls
    /\ fn' = f
    /\ result' = <<>>
    /\ keys_list' = <<>>
    /\ pos' = 0
    /\ pc' = "loop"
    /\ UNCHANGED <<fs, inst, err, stdout, calls, items>>

\* The turn of the loop with the key never added to keys_list.
CountItemsSlowStepNoAppend ==
    /\ fn = "count_items_slow"
    /\ pc = "loop"
    /\ pos < Len(items)
    /\ LET item == items[pos + 1]
       IN  IF \E i \in 1..Len(keys_list) : keys_list[i] = item
           THEN IF item \in DOMAIN result
                THEN /\ result' = [result EXCEPT ![item] = @ + 1]
                     /\ pos' = pos + 1
                     /\ UNCHANGED <<pc, err, keys_list>>
                ELSE /\ pc' = "raised"
                     /\ err' = "KeyError"
                     /\ UNCHANGED <<result, pos, keys_list>>
           ELSE /\ result' = DictSet(result, item, 1)
                /\ pos' = pos + 1
                /\ UNCHANGED <<pc, err, keys_list>>
    /\ UNCHANGED <<fs, fn, inst, stdout, calls, items>>

\* One turn of the loop of count_items_slow: `item in keys_list` scans the
\* list; result[item] += 1 raises KeyError for a key result does not hold.
CountItemsSlowStep ==
    /\ fn = "count_items_slow"
    /\ pc = "loop"
    /\ pos < Len(items)
    /\ LET item == items[pos + 1]
       IN  IF \E i \in 1..Len(keys_list) : keys_list[i] = item
           THEN IF item \in DOMAIN result
                THEN /\ result' = [result EXCEPT ![item] = @ + 1]
                     /\ pos' = pos + 1
                     /\ UNCHANGED <<pc, err, keys_list>>
                ELSE /\ pc' = "raised"
                     /\ err' = "KeyError"
                     /\ UNCHANGED <<result, pos, keys_list>>
           ELSE /\ result' = DictSet(result, item, 1)
                /\ keys_list' = Append(keys_list, item)
                /\ pos' = pos + 1
                /\ UNCHANGED <<pc, err>>
    /\ UNCHANGED <<fs, fn, inst, stdout, calls, items>>

\* One turn of the loop of count_items_fast.
CountItemsFastStep ==
    /\ fn = "count_items_fast"
    /\ pc = "loop"
    /\ pos < Len(items)
    /\ LET item == items[pos + 1]
       IN  result' = DictSet(result, item, DictGet(result, item, 0) + 1)
    /\ pos' = pos + 1
    /\ UNCHANGED <<fs, pc, fn, inst, err, stdout, calls, items, keys_list>>

\* return result
CountItemsReturn ==
    /\ fn \in {"count_items_slow", "count_items_fast"}
    /\ pc = "loop"
    /\ pos = Len(items)
    /\ calls' = Append(calls, [fn |-> fn, inst |-> inst, err |-> "none",
                               value |-> result])
    /\ pc' = "idle"
    /\ UNCHANGED <<fs, fn, inst, err, stdout, items, pos, result, keys_list>>

InitCount ==
    /\ IdleControl
    /\ fs = NoFiles
    /\ NoEmail
    /\ NoCustomers
    /\ NoSales
    /\ NoProducts
    /\ module = "slow_code_examples"
    /\ caller = "client"
    /\ calls = <<>>
    /\ exit = "running"
    /\ items \in SeqsUpTo(ItemNames, MaxItems)
    /\ pos = 0
    /\ result = <<>>
    /\ keys_list = <<>>
    /\ global_counter = 0
    /\ local_counter = 0
    /\ bench = 0

NextCount ==
    /\ \/ \E f \in {"count_items_slow", "count_items_fast"} : CountItemsCall(f)
       \/ CountItemsSlowStep
       \/ CountItemsFastStep
       \/ CountItemsReturn
    /\ UNCHANGED <<emailVars, customerVars, salesVars, productVars, module,
                   caller, exit, global_counter, local_counter, bench>>

SpecCount == InitCount /\ [][NextCount]_vars

\* The number of positions of s holding x.
Occurrences(s, x) == Cardinality({i \in 1..Len(s) : s[i] = x})

\* C15: count_items_slow and count_items_fast return the same mapping, from
\* exactly the distinct items of the list to their numbers of occurrences;
\* and in count_items_slow, after every turn of the loop, keys_list holds
\* exactly the keys of result, each once.
C15_CountsAgree ==
    /\ \A k \in 1..Len(calls) :
          /\ DOMAIN calls[k].value = Range(items)
          /\ \A x \in Range(items) : calls[k].value[x] = Occurrences(items, x)
    /\ \A j, k \in 1..Len(calls) : calls[j].value = calls[k].value
    /\ (fn = "count_items_slow" /\ pc = "loop") =>
          /\ Range(keys_list) = DOMAIN result
          /\ Cardinality(Range(keys_list)) = Len(keys_list)
    /\ pc # "raised"

\* Both functions have returned for a list that repeats one item and holds
\* another.
C15_Witness ==
    /\ Len(calls) = 2
    /\ calls[1].fn = "count_items_slow"
    /\ calls[2].fn = "count_items_fast"
    /\ \E x \in Range(items) : Occurrences(items, x) >= 2
    /\ Cardinality(Range(items)) >= 2

-----------------------------------------------------------------------------
(* The metrics engine on its own: the functions of statistics_utils.py     *)
(* applied to the frames the functions of data_utils.py return.            *)

InitEngine ==
    /\ IdleControl
    /\ \/ \E file \in SalesFiles :
             fs = [NoFiles EXCEPT ![SalesSource("north")] = file]
       \/ \E file \in CustomerFiles :
             fs = [NoFiles EXCEPT ![CustomerSource("new")] = file]
       \/ \E file \in ProductFiles :
             fs = [NoFiles EXCEPT ![ProductSource("electronics")] = file]
    /\ NoEmail
    /\ NoCustomers
    /\ NoSales
    /\ NoProducts
    /\ NoRun
    /\ NoExamples

NextEngine ==
    /\ \/ /\ \/ LoadAndCleanSalesData("north")
             \/ CalculateSalesStatistics
          /\ UNCHANGED <<customerVars, productVars>>
       \/ /\ \/ LoadAndValidateCustomers("new")
             \/ ValidateCustomerDataRow
             \/ ValidateCustomerDataReturn
             \/ CalculateAgeStatistics
          /\ UNCHANGED <<salesVars, productVars>>
       \/ /\ \/ CalculateProductMetrics("electronics")
             \/ CalculateProductMetricsAgain
             \/ GetSummaryMetrics
          /\ UNCHANGED <<customerVars, salesVars>>
    /\ UNCHANGED <<emailVars, runVars, exampleVars>>

SpecEngine == InitEngine /\ [][NextEngine]_vars

DerivedColumns == {"revenue", "profit", "profit_margin"}

\* The frame passed to calculate_product_metrics is, after the call, the
\* frame that was read: no derived column and every base field as read.
C16_ArgumentAsRead ==
    (fn = "calculate_product_metrics" /\ pc \in {"returned", "twice"}) =>
        /\ caller_df = ReadCsv(fs[ProductSource(inst)])
        /\ Range(caller_df.columns) \cap DerivedColumns = {}
        /\ \A i \in 1..Len(caller_df.rows) :
              DOMAIN caller_df.rows[i] \cap DerivedColumns = {}

\* A call of a function of the engine leaves its argument as it was.
C16_ArgumentKept ==
    /\ (fn' = "calculate_product_metrics" /\ pc' = "twice") => products' = products
    /\ (fn' = "get_summary_metrics" /\ fn # fn') => products' = products
    /\ (fn' = "calculate_sales_statistics" /\ fn # fn') => data' = data
    /\ (fn' = "calculate_age_statistics" /\ fn # fn') => valid_df' = valid_df

\* C16: calculate_product_metrics leaves the collection passed to it
\* unchanged (no revenue, profit or profit_margin on it, no base field
\* changed), and calculate_sales_statistics, calculate_age_statistics and
\* get_summary_metrics change nothing in their input.
C16_EngineIsPure ==
    /\ []C16_ArgumentAsRead
    /\ [][C16_ArgumentKept]_vars

\* calculate_product_metrics has returned a frame with the derived columns
\* for a caller's frame that has records.
C16_Witness ==
    /\ fn = "calculate_product_metrics"
    /\ pc = "returned"
    /\ caller_df.rows # <<>>
    /\ DerivedColumns \subseteq Range(products.columns)

-----------------------------------------------------------------------------
(* Zero-quantity records in the summary of a category.                     *)

\* The records of `products` sold at least once for a price, and those
\* never sold.
WithRevenue == SelectSeq(products.rows, LAMBDA r : r.quantity_sold * r.price # 0)

ZeroQuantity == SelectSeq(products.rows, LAMBDA r : r.quantity_sold = 0)

\* A category of zero-quantity records and records with revenue, with at
\* least one of each.
MixedCategory ==
    /\ ZeroQuantity # <<>>
    /\ WithRevenue # <<>>
    /\ Len(ZeroQuantity) + Len(WithRevenue) = Len(products.rows)

\* C17: in a category that mixes zero-quantity records and records with
\* revenue, a zero-quantity record adds 0 to total_revenue and to
\* total_profit and is left out of avg_margin, which is the mean of
\* (profit / revenue) * 100 over the records with revenue, a finite number.
C17_ZeroQuantityLeftOut ==
    (Summarized /\ MixedCategory) =>
        LET revenues == [i \in 1..Len(WithRevenue) |->
                            WithRevenue[i].quantity_sold * WithRevenue[i].price]
            profits == [i \in 1..Len(WithRevenue) |->
                           revenues[i]
                               - WithRevenue[i].quantity_sold * WithRevenue[i].cost]
            margins == [i \in 1..Len(WithRevenue) |->
                           Rat(100 * profits[i], revenues[i])]
        IN  /\ \A i \in 1..Len(ZeroQuantity) :
                  /\ ZeroQuantity[i].revenue = 0
                  /\ ZeroQuantity[i].profit = 0
            /\ metrics.total_revenue = Float(SumSeq(revenues))
            /\ metrics.total_profit = Float(SumSeq(profits))
            /\ metrics.avg_margin = FDivInt(FSum(margins), Len(margins))
            /\ IsFinite(metrics.avg_margin)

\* A category pipeline has printed the summary of two records with revenue
\* and a zero-quantity record: avg_margin is the mean of two margins.
C17_Witness ==
    /\ fn = "calculate_*_metrics"
    /\ pc = "done"
    /\ MixedCategory
    /\ Len(WithRevenue) = 2
    /\ WithRevenue[1].profit_margin # WithRevenue[2].profit_margin
    /\ metrics.avg_margin =
          FDivInt(FAdd(WithRevenue[1].profit_margin, WithRevenue[2].profit_margin), 2)

-----------------------------------------------------------------------------
(* slow_code_examples.py: the global counter.                              *)

\* The most calls, resets and benchmarks a caller of the example makes.
MaxEvents == 3

\* The lists given to the two functions: the empty list, lists with a
\* negative item, and the list of test_local_vs_global.
IntLists == {<<>>, <<2>>, <<-1, 2>>, <<1, 2, 3, 4, 5>>}

\* What the log of an example keeps of a call, or of the reset.
Event(f, arg, v) == [fn |-> f, inst |-> "none", err |-> "none", items |-> arg, value |-> v]

\* process_with_global_slow(items) or process_with_local_fast(items) is
\* entered: by a caller of its own, or by benchmark_example.
ProcessCall(f, arg) ==
    /\ pc = "idle"
    /\ fn' = f
    /\ items' = arg
    /\ pos' = 0
    /\ local_counter' = 0
    /\ pc' = "loop"
    /\ UNCHANGED <<fs, inst, err, stdout, calls, result, keys_list, global_counter>>

ClientProcessCall ==
    /\ bench = 0
    /\ Len(calls) < MaxEvents
    /\ \E f \in {"process_with_global_slow", "process_with_local_fast"},
          arg \in IntLists : ProcessCall(f, arg)
    /\ bench' = bench

\* global_counter = 0, as the __main__ block does before its benchmark.
ResetGlobalCounter ==
    /\ pc = "idle"
    /\ bench = 0
    /\ Len(calls) < MaxEvents
    /\ global_counter' = 0
    /\ calls' = Append(calls, Event("reset", <<>>, 0))
    /\ UNCHANGED <<fs, pc, fn, inst, err, stdout, items, pos, result, keys_list,
                   local_counter, bench>>

\* The loop of process_with_global_slow with a counter of its own, started
\* at 0 by the call.
ProcessWithGlobalSlowStepLocal ==
    /\ fn = "process_with_global_slow"
    /\ pc = "loop"
    /\ pos < Len(items)
    /\ global_counter' = (IF pos = 0 THEN 0 ELSE global_counter) + items[pos + 1]
    /\ pos' = pos + 1
    /\ UNCHANGED <<fs, pc, fn, inst, err, stdout, calls, items, result, keys_list,
                   local_counter, bench>>

\* One turn of the loop of process_with_global_slow.
ProcessWithGlobalSlowStep ==
    /\ fn = "process_with_global_slow"
    /\ pc = "loop"
    /\ pos < Len(items)
    /\ global_counter' = global_counter + items[pos + 1]
    /\ pos' = pos + 1
    /\ UNCHANGED <<fs, pc, fn, inst, err, stdout, calls, items, result, keys_list,
                   local_counter, bench>>

\* One turn of the loop of process_with_local_fast.
ProcessWithLocalFastStep ==
    /\ fn = "process_with_local_fast"
    /\ pc = "loop"
    /\ pos < Len(items)
    /\ local_counter' = local_counter + items[pos + 1]
    /\ pos' = pos + 1
    /\ UNCHANGED <<fs, pc, fn, inst, err, stdout, calls, items, result, keys_list,
                   global_counter, bench>>

\* return global_counter, or return local_counter; within benchmark_example
\* the next of its four calls follows.
ProcessReturn ==
    /\ fn \in {"process_with_global_slow", "process_with_local_fast"}
    /\ pc = "loop"
    /\ pos = Len(items)
    /\ calls' = Append(calls,
                    Event(fn, items,
                          IF fn = "process_with_global_slow"
                          THEN global_counter ELSE local_counter))
    /\ pc' = "idle"
    /\ bench' = IF bench = 0 THEN 0 ELSE bench + 1
    /\ UNCHANGED <<fs, fn, inst, err, stdout, items, pos, result, keys_list,
                   global_counter, local_counter>>

\* The number of calls benchmark_example makes: each function once to warm
\* up and once timed.
BenchmarkCalls == 4

\* benchmark_example(process_with_global_slow, process_with_local_fast,
\* items) is entered.
BenchmarkExample ==
    /\ pc = "idle"
    /\ bench = 0
    /\ Len(calls) < MaxEvents
    /\ bench' = 1
    /\ items' \in IntLists
    /\ UNCHANGED <<fs, pc, fn, inst, err, stdout, calls, pos, result, keys_list,
                   global_counter, local_counter>>

\* Its next call: slow_func, fast_func, slow_func, fast_func.
BenchmarkCall ==
    /\ bench \in 1..BenchmarkCalls
    /\ ProcessCall(IF bench % 2 = 1 THEN "process_with_global_slow"
                   ELSE "process_with_local_fast", items)
    /\ bench' = bench

\* The three prints and the return.  The speedup divides by fast_time,
\* which is 0.0 when the clock did not advance: ZeroDivisionError, after
\* the two lines before it were printed.
BenchmarkReport ==
    /\ pc = "idle"
    /\ bench = BenchmarkCalls + 1
    /\ fn' = "benchmark_example"
    /\ \/ /\ stdout' = Append(stdout, [title |-> "benchmark", speedup |-> TRUE])
          /\ calls' = Append(calls, Event("benchmark_example", items, 0))
          /\ err' = err
       \/ /\ stdout' = Append(stdout, [title |-> "benchmark", speedup |-> FALSE])
          /\ calls' = Append(calls,
                          [Event("benchmark_example", items, 0)
                              EXCEPT !.err = "ZeroDivisionError"])
          /\ err' = "ZeroDivisionError"
    /\ bench' = 0
    /\ UNCHANGED <<fs, pc, inst, items, pos, result, keys_list, global_counter,
                   local_counter>>

InitCounter ==
    /\ IdleControl
    /\ fs = NoFiles
    /\ NoEmail
    /\ NoCustomers
    /\ NoSales
    /\ NoProducts
    /\ module = "slow_code_examples"
    /\ caller = "client"
    /\ calls = <<>>
    /\ exit = "running"
    /\ NoExamples

NextCounter ==
    /\ \/ ClientProcessCall
       \/ ResetGlobalCounter
       \/ ProcessWithGlobalSlowStep
       \/ ProcessWithLocalFastStep
       \/ ProcessReturn
       \/ BenchmarkExample
       \/ BenchmarkCall
       \/ BenchmarkReport
    /\ UNCHANGED <<emailVars, customerVars, salesVars, productVars, module,
                   caller, exit>>

SpecCounter == InitCounter /\ [][NextCounter]_vars

\* The value of global_counter after the events of a log: 0 at import and
\* after a reset, and the sum of the items of every call of
\* process_with_global_slow since.
RECURSIVE CounterAfter(_)
CounterAfter(log) ==
    IF log = <<>> THEN 0
    ELSE LET last == log[Len(log)]
             before == CounterAfter(SubSeq(log, 1, Len(log) - 1))
         IN  CASE last.fn = "reset" -> 0
               [] last.fn = "process_with_global_slow" -> before + SumSeq(last.items)
               [] OTHER -> before

\* C18: global_counter is its value at the last reset plus the sum of the
\* items of all calls of process_with_global_slow since, and each call
\* returns that running total; process_with_local_fast returns the sum of
\* its items whatever was called before; the two agree exactly when the
\* counter was 0 when the slow call began; and benchmark_example, entered
\* with the counter at 0, leaves it at twice the sum of the items.
C18_CounterAccumulates ==
    /\ pc = "idle" => global_counter = CounterAfter(calls)
    /\ \A k \in 1..Len(calls) :
          LET before == CounterAfter(SubSeq(calls, 1, k - 1))
              total == SumSeq(calls[k].items)
          IN  /\ calls[k].fn = "process_with_global_slow" =>
                    /\ calls[k].value = before + total
                    /\ (calls[k].value = total) <=> (before = 0)
              /\ calls[k].fn = "process_with_local_fast" => calls[k].value = total
              /\ (calls[k].fn = "benchmark_example" /\ k > BenchmarkCalls) =>
                    LET entered == CounterAfter(SubSeq(calls, 1, k - 1 - BenchmarkCalls))
                    IN  /\ before = entered + 2 * total
                        /\ entered = 0 => before = 2 * total

\* benchmark_example has ended, entered right after a reset that followed
\* a call of process_with_global_slow; its second slow call returned twice
\* what its fast calls returned.
C18_Witness ==
    /\ Len(calls) = 2 + BenchmarkCalls + 1
    /\ calls[1].fn = "process_with_global_slow"
    /\ calls[1].value # 0
    /\ calls[2].fn = "reset"
    /\ calls[Len(calls)].fn = "benchmark_example"
    /\ calls[3].value = 15
    /\ calls[4].value = 15
    /\ calls[5].value = 30
    /\ global_counter = 30

-----------------------------------------------------------------------------
(* The customer report.                                                    *)

\* A report has just been printed, in whole or in part.
ReportPrinted ==
    /\ fn = "generate_customer_report"
    /\ pc \in {"done", "raised"}
    /\ err \notin {"UnboundLocalError", "FileNotFoundError"}

\* The calls of process_<t>_customers of this run that returned.
Persisted(t) ==
    {k \in 1..Len(calls) :
        /\ calls[k].fn = "process_*_customers"
        /\ calls[k].inst = t
        /\ calls[k].err = "none"}

Latest(S) == CHOOSE k \in S : \A j \in S : j <= k

\* C19: generate_customer_report(t) reads the file process_<t>_customers
\* writes; in the run of the __main__ block a report for t is made only
\* after process_<t>_customers returned, its sink written; the
\* 'Total Customers' printed is the number of records that call returned;
\* and when no process_<t>_customers of the run got to write, a report for
\* t fails or shows the file an earlier run left.
C19_ReportAfterPersist ==
    /\ (caller = "__main__" /\ fn = "generate_customer_report") =>
          /\ Persisted(inst) # {}
          /\ pc \in {"done", "raised"} => ReportPrinted
    /\ ReportPrinted =>
          LET block == stdout[Len(stdout)]
          IN  /\ block.title = ReportTitle(inst)
              /\ IF Persisted(inst) # {}
                 THEN block.total_customers = Len(calls[Latest(Persisted(inst))].value.rows)
                 ELSE /\ fs[CustomerSink(inst)] = StaleSink
                      /\ block.total_customers = Len(StaleSink.rows)
    /\ (fn = "generate_customer_report" /\ inst \in Segments
          /\ pc \in {"done", "raised"} /\ Persisted(inst) = {}) =>
          \/ err = "FileNotFoundError"
          \/ fs[CustomerSink(inst)] = StaleSink

\* The __main__ block has printed the report of a segment whose source
\* holds three records, two of them validated.
C19_Witness ==
    /\ caller = "__main__"
    /\ fn = "generate_customer_report"
    /\ pc = "done"
    /\ inst = "new"
    /\ Len(fs[CustomerSource("new")].rows) = 3
    /\ stdout[Len(stdout)].total_customers = 2
    /\ Len(fs[CustomerSource("returning")].rows) = 1

-----------------------------------------------------------------------------
(* The tags of generate_customer_report.                                   *)

\* The tag a title reads as.
TagOfTitle(title) ==
    CASE title = "New Customer Report" -> "new"
      [] title = "Returning Customer Report" -> "returning"
      [] title = "VIP Customer Report" -> "vip"
      [] OTHER -> "none"

\* The file in outputs/ of a tag.
SinkOfTag(t) == CHOOSE p \in Paths : ~IsSource(p) /\ Owner(p) = t

\* For one of the three tags, the title printed and the file read are that
\* tag's: the report fails for want of a file exactly when the tag's own
\* file is missing, and the count printed under the tag's title is that of
\* the tag's own file.
C20_TitleAndFileOfTag ==
    (fn = "generate_customer_report" /\ inst \in Segments /\ pc \in {"done", "raised"}) =>
        /\ err # "UnboundLocalError"
        /\ (err = "FileNotFoundError") <=> (fs[SinkOfTag(inst)] = Missing)
        /\ ReportPrinted =>
              /\ TagOfTitle(stdout[Len(stdout)].title) = inst
              /\ stdout[Len(stdout)].total_customers = Len(fs[SinkOfTag(inst)].rows)

\* A call with another tag ends in an error with nothing printed, whatever
\* files there are.
C20_OtherTagRaises ==
    (pc = "idle" /\ fn' = "generate_customer_report" /\ inst' \notin Segments) =>
        /\ pc' = "raised"
        /\ err' = "UnboundLocalError"
        /\ stdout' = stdout
        /\ fs' = fs

\* C20: generate_customer_report accepts the tags 'new', 'returning' and
\* 'vip' only: for another tag it reads no file, prints nothing and ends in
\* an error; for each of the three the title and the file are that tag's.
C20_ClosedTagSet ==
    /\ []C20_TitleAndFileOfTag
    /\ [][C20_OtherTagRaises]_vars

\* A client's call with the tag 'premium' has raised after an earlier call
\* printed a block, with a file in every sink.
C20_Witness ==
    /\ fn = "generate_customer_report"
    /\ inst = "premium"
    /\ pc = "raised"
    /\ err = "UnboundLocalError"
    /\ Len(stdout) = 1
    /\ \A t \in Segments : fs[CustomerSink(t)] # Missing

====
